---- MODULE Spec2Model ----
(***************************************************************************)
(* A model of the BridgeView AIS gateway (server.js) and of the vessel     *)
(* notifier's bridge-crossing detector (bridge-detector.ts, geo.ts).       *)
(*                                                                         *)
(* The gateway part has one record per downstream connection (the closure  *)
(* of the wss "connection" handler) and one action per event handler.      *)
(* Sockets follow the ws library: close() on an OPEN socket makes it       *)
(* CLOSING and the "close" event comes later; close() on a socket that is  *)
(* not OPEN changes nothing; send() on a socket that is not OPEN is        *)
(* dropped; "message" events are still delivered while the socket is       *)
(* CLOSING after a close() of the gateway's own.                           *)
(***************************************************************************)
EXTENDS Integers, Sequences, FiniteSets, TLC

(* ------------------------------------------------------------------ *)
(* Program constants                                                    *)
(* ------------------------------------------------------------------ *)
MAX_CONNECTIONS_PER_IP == 5
MAX_MESSAGES_PER_MINUTE == 60
RATE_WINDOW_MS == 60000
LAT_MIN == -90
LAT_MAX == 90
LON_MIN == -180
LON_MAX == 180
MAX_BOUNDING_BOX_AREA == 100
MAX_BOUNDING_BOXES == 5

API_KEY == "server-api-key"
SECRET == "secret-token"

(* ------------------------------------------------------------------ *)
(* Bounds of the model                                                  *)
(* ------------------------------------------------------------------ *)
MaxConns == 7        \* connections of the admission specification
MaxMsgs == 3         \* messages a client sends on one session
MaxFeed == 1         \* messages the upstream feed sends on one session
MaxPairMsgs == 2     \* messages a client sends on one of two sessions
MaxRateMsgs == 62    \* messages of a client that floods its session
MaxRateTicks == 3    \* half windows of time that pass during a flood

(* ------------------------------------------------------------------ *)
(* Values                                                               *)
(* ------------------------------------------------------------------ *)
Absent == "absent"
NoLimit == [count |-> 0, resetTime |-> -1]
NoClose == <<0, "">>

(* A JSON array field as the validator sees it: absent (undefined), null
   (any falsy value), notarray (a truthy value that is no array), or an
   array with its items. *)
NoField == [kind |-> "absent", items |-> <<>>]
NullField == [kind |-> "null", items |-> <<>>]
NotArray == [kind |-> "notarray", items |-> <<>>]
Array(items) == [kind |-> "array", items |-> items]

(* A bounding box as the validator sees it.  shape "pair": an array of two
   coordinate pairs; "notpair": not an array, or not of length 2;
   "badcorner": an array of length 2 whose elements are not iterable;
   "nan": two pairs of values that are no numbers, such as ["a", "b"]. *)
Box(lat1, lon1, lat2, lon2) ==
  [shape |-> "pair", lat1 |-> lat1, lon1 |-> lon1, lat2 |-> lat2, lon2 |-> lon2]
NotPairBox == [shape |-> "notpair", lat1 |-> 0, lon1 |-> 0, lat2 |-> 0, lon2 |-> 0]
BadCornerBox == [shape |-> "badcorner", lat1 |-> 0, lon1 |-> 0, lat2 |-> 0, lon2 |-> 0]
NaNBox == [shape |-> "nan", lat1 |-> 0, lon1 |-> 0, lat2 |-> 0, lon2 |-> 0]

(* A JSON value as a client may send it.  kind "object": an object whose
   fields may each be absent; "null": JSON null; "garbage": text that is
   no JSON; "bytes": a payload that is not UTF-8 text; "none": no value
   at all. *)
Value(kind, tok, bbs, fmt, key, extra) ==
  [kind |-> kind, authToken |-> tok, BoundingBoxes |-> bbs,
   FilterMessageTypes |-> fmt, Apikey |-> key, extra |-> extra]
Obj(tok, bbs, fmt, key, extra) == Value("object", tok, bbs, fmt, key, extra)
JsonNull == Value("null", Absent, NoField, NoField, Absent, Absent)
Garbage == Value("garbage", Absent, NoField, NoField, Absent, Absent)
Bytes == Value("bytes", Absent, NoField, NoField, Absent, Absent)
NoValue == Value("none", Absent, NoField, NoField, Absent, Absent)

(* A frame is a payload and its opcode.  raw is the JSON value the payload
   denotes, Garbage for text that is no JSON, Bytes for a payload that is
   no text.  Frame(v) is a text frame, Binary(f) the binary frame of the
   same payload. *)
Frame(v) == [raw |-> v, binary |-> FALSE]
Binary(data) == [data EXCEPT !.binary = TRUE]
NoFrame == Frame(NoValue)

(* data.toString(): the payload decoded as UTF-8, a string whatever the
   opcode of the frame was; bytes that are no UTF-8 decode to other text *)
toString(data) == IF data.raw.kind = "bytes" THEN Garbage ELSE data.raw

Parses(data) == toString(data).kind # "garbage"
JSONparse(data) == toString(data)
JSONstringify(v) == Frame(v)

IsObject(v) == v.kind = "object"

(* ------------------------------------------------------------------ *)
(* State                                                                *)
(* ------------------------------------------------------------------ *)
VARIABLES
  AUTH_TOKEN,          \* the configured shared secret, or Absent
  connectionsByIP,     \* IP -> count
  messageRateLimits,   \* clientId -> { count, resetTime }, NoLimit when unset
  session,             \* clientId -> the closure of one downstream connection
  upstreamOut,         \* clientId -> frames sent on the upstream socket
  clientOut,           \* clientId -> frames sent on the downstream socket
  obs,                 \* clientId -> what has happened on the session so far
  now,                 \* Date.now() of the gateway process
  crashed              \* the process has ended without running a handler: an
                       \* exception was left uncaught, or a signal killed it

gwVars == <<AUTH_TOKEN, connectionsByIP, messageRateLimits, session,
            upstreamOut, clientOut, obs, now, crashed>>

(* the sessions of the specification at hand *)
AllConns == DOMAIN session

NoSession ==
  [clientIP |-> Absent, client |-> "NONE", admitted |-> FALSE,
   upstream |-> "null", authenticated |-> FALSE,
   subscriptionTimeout |-> "none", subscriptionStr |-> NoFrame,
   close |-> NoClose, closeBy |-> "nobody"]

NoObs ==
  [received |-> 0, passed |-> <<>>, releases |-> 0, upstreams |-> 0,
   validated |-> 0, acks |-> 0, accepted |-> NoValue, fed |-> 0]

GatewayInit(conns, ips) ==
  /\ AUTH_TOKEN \in {Absent, SECRET}
  /\ connectionsByIP = [ip \in ips |-> 0]
  /\ messageRateLimits = [c \in conns |-> NoLimit]
  /\ session = [c \in conns |-> NoSession]
  /\ upstreamOut = [c \in conns |-> <<>>]
  /\ clientOut = [c \in conns |-> <<>>]
  /\ obs = [c \in conns |-> NoObs]
  /\ now = 0
  /\ crashed = FALSE

(* ------------------------------------------------------------------ *)
(* Helpers of server.js                                                 *)
(* ------------------------------------------------------------------ *)
(* a check that lets the IP go one over its cap *)
checkIPRateLimitInclusive(ip) == connectionsByIP[ip] <= MAX_CONNECTIONS_PER_IP

checkIPRateLimit(ip) == connectionsByIP[ip] < MAX_CONNECTIONS_PER_IP

releaseIPConnection(byIP, ip) ==
  IF byIP[ip] > 0 THEN [byIP EXCEPT ![ip] = @ - 1] ELSE byIP

(* client.close(code, reason) of the ws library on the session's socket *)
clientClose(s, code, reason) ==
  IF s.client = "OPEN"
    THEN [s EXCEPT !.client = "CLOSING", !.close = <<code, reason>>,
                   !.closeBy = "gateway"]
    ELSE s

clearTimeout(s) ==
  IF s.subscriptionTimeout = "armed"
    THEN [s EXCEPT !.subscriptionTimeout = "cleared"]
    ELSE s

(* wss.on("connection") *)
OnConnection(c, ip) ==
  /\ ~crashed
  /\ session[c].client = "NONE"
  /\ \A d \in AllConns : d < c => session[d].client # "NONE"
  /\ IF checkIPRateLimit(ip)
       THEN /\ connectionsByIP' = [connectionsByIP EXCEPT ![ip] = @ + 1]
            /\ session' = [session EXCEPT ![c] =
                 [NoSession EXCEPT !.clientIP = ip, !.client = "OPEN",
                                   !.admitted = TRUE,
                                   !.authenticated = (AUTH_TOKEN = Absent),
                                   !.subscriptionTimeout = "armed"]]
       ELSE /\ connectionsByIP' = connectionsByIP
            /\ session' = [session EXCEPT ![c] =
                 [NoSession EXCEPT !.clientIP = ip, !.client = "CLOSING",
                                   !.close = <<1008, "Too many connections from your IP">>,
                                   !.closeBy = "gateway"]]
  /\ UNCHANGED <<AUTH_TOKEN, messageRateLimits, upstreamOut, clientOut, obs, now, crashed>>

(* checkMessageRateLimit: whether the message passes, and the map after it *)
checkMessageRateLimit(limits, clientId, t) ==
  LET limit == limits[clientId] IN
  IF limit = NoLimit \/ t > limit.resetTime
    THEN [ok |-> TRUE,
          limits |-> [limits EXCEPT ![clientId] =
                        [count |-> 1, resetTime |-> t + RATE_WINDOW_MS]]]
    ELSE IF limit.count >= MAX_MESSAGES_PER_MINUTE
      THEN [ok |-> FALSE, limits |-> limits]
      ELSE [ok |-> TRUE,
            limits |-> [limits EXCEPT ![clientId].count = @ + 1]]

(* ------------------------------------------------------------------ *)
(* validateSubscription                                                 *)
(* ------------------------------------------------------------------ *)
MsgTypeNum(n) == [num |-> n, str |-> ""]
MsgTypeStr(s) == [num |-> -1, str |-> s]

allowedMessageTypes == {1, 2, 3, 18, 19, 27}
allowedMessageNames ==
  {"PositionReport", "ShipStaticData", "StandardClassBPositionReport",
   "ExtendedClassBPositionReport"}

Abs(x) == IF x < 0 THEN -x ELSE x

IsArray(v) == v.kind = "array"
Truthy(v) == v.kind \in {"notarray", "array"}

(* a loop body that takes the cap as exclusive *)
BoxCheckBelowCap(box) ==
  IF box.shape = "notpair" THEN "pairs"
  ELSE IF box.shape = "badcorner" THEN "throw"
  ELSE IF box.shape = "nan" THEN "ok"
  ELSE IF \/ box.lat1 < LAT_MIN \/ box.lat1 > LAT_MAX
          \/ box.lat2 < LAT_MIN \/ box.lat2 > LAT_MAX
          \/ box.lon1 < LON_MIN \/ box.lon1 > LON_MAX
          \/ box.lon2 < LON_MIN \/ box.lon2 > LON_MAX THEN "range"
  ELSE IF Abs(box.lat2 - box.lat1) * Abs(box.lon2 - box.lon1) >= MAX_BOUNDING_BOX_AREA
    THEN "area"
  ELSE "ok"

(* the verdict of the loop body on one box; every comparison with NaN is
   false *)
BoxCheck(box) ==
  IF box.shape = "notpair" THEN "pairs"
  ELSE IF box.shape = "badcorner" THEN "throw"
  ELSE IF box.shape = "nan" THEN "ok"
  ELSE IF \/ box.lat1 < LAT_MIN \/ box.lat1 > LAT_MAX
          \/ box.lat2 < LAT_MIN \/ box.lat2 > LAT_MAX
          \/ box.lon1 < LON_MIN \/ box.lon1 > LON_MAX
          \/ box.lon2 < LON_MIN \/ box.lon2 > LON_MAX THEN "range"
  ELSE IF Abs(box.lat2 - box.lat1) * Abs(box.lon2 - box.lon1) > MAX_BOUNDING_BOX_AREA
    THEN "area"
  ELSE "ok"

MessageTypeOK(type) ==
  \/ type.str = "" /\ type.num \in allowedMessageTypes
  \/ type.str \in allowedMessageNames

Invalid(error) ==
  [valid |-> FALSE, threw |-> FALSE, error |-> error, subscription |-> NoValue]
Threw ==
  [valid |-> FALSE, threw |-> TRUE, error |-> "TypeError", subscription |-> NoValue]

(* a sanitizer that forwards the client's object as it came *)
sanitizedKeepingAll(subscription) == subscription

(* Strip any suspicious fields: only the two whitelisted fields are copied *)
sanitized(subscription) ==
  Obj(Absent, subscription.BoundingBoxes,
      IF Truthy(subscription.FilterMessageTypes)
        THEN subscription.FilterMessageTypes ELSE NoField,
      Absent, Absent)

validateSubscription(subscription) ==
  IF ~IsObject(subscription) THEN Invalid("Subscription must be an object")
  ELSE IF ~IsArray(subscription.BoundingBoxes)
    THEN Invalid("BoundingBoxes array is required")
  ELSE
    LET boxes == subscription.BoundingBoxes.items
        types == subscription.FilterMessageTypes
        bad == {i \in 1..Len(boxes) : BoxCheck(boxes[i]) # "ok"}
        first == CHOOSE i \in bad : \A j \in bad : i <= j
    IN
    IF bad # {} THEN
      CASE BoxCheck(boxes[first]) = "pairs" ->
             Invalid("Each bounding box must be an array of 2 coordinate pairs")
        [] BoxCheck(boxes[first]) = "throw" -> Threw
        [] BoxCheck(boxes[first]) = "range" -> Invalid("Coordinates out of valid range")
        [] OTHER -> Invalid("Bounding box area too large (max 100 sq degrees)")
    ELSE IF Len(boxes) > MAX_BOUNDING_BOXES
      THEN Invalid("Maximum 5 bounding boxes allowed")
    ELSE IF Truthy(types) /\ ~IsArray(types)
      THEN Invalid("FilterMessageTypes must be an array")
    ELSE IF Truthy(types) /\ \E i \in 1..Len(types.items) : ~MessageTypeOK(types.items[i])
      THEN Invalid("Invalid message type")
    ELSE [valid |-> TRUE, threw |-> FALSE, error |-> "",
          subscription |-> sanitized(subscription)]

(* Inject API key into sanitized subscription *)
injectApiKey(subscription) == [subscription EXCEPT !.Apikey = API_KEY]

(* ------------------------------------------------------------------ *)
(* client.on("message")                                                 *)
(* ------------------------------------------------------------------ *)
AckFrame == JSONstringify(Value("authenticated", Absent, NoField, NoField, Absent, Absent))
FeedFrame == Frame(Value("feed", Absent, NoField, NoField, Absent, Absent))

(* a first-message test that looks at the upstream socket's readyState *)
firstMessageUntilOpen(s) == s.upstream # "OPEN"

(* if (!upstream): the message is handled as a first message *)
firstMessage(s) == s.upstream = "null"

(* an authentication test that is never taken *)
authNeverRequired(s) == FALSE

(* if (AUTH_TOKEN && !authenticated) *)
authRequired(s) == AUTH_TOKEN # Absent /\ ~s.authenticated

(* message.authToken !== AUTH_TOKEN, negated *)
tokenMatches(message) == message.authToken = AUTH_TOKEN

(* a handler that forgets clearTimeout on the success path *)
timeoutLeftRunning(s) == s

(* clearTimeout(subscriptionTimeout) after a subscription passed validation *)
timeoutAfterValidation(s) == clearTimeout(s)

(* upstream.send(data): data is the Buffer the downstream socket handed to
   the handler, and a Buffer is sent as a binary frame *)
upstreamSend(out, data) == Append(out, Binary(data))

(* a relay that puts the frame before the ones already sent *)
clientSendToStringFirst(out, data) == <<Frame(toString(data))>> \o out

(* client.send(data.toString()): a string is sent as a text frame *)
clientSendToString(out, data) == Append(out, Frame(toString(data)))

(* The branch of the handler that a message takes.  "threw" and
   "validthrew" are the TypeErrors of message.authToken on null and of the
   destructuring of a box whose corners are not iterable. *)
MessageBranch(s, data, passes) ==
  IF ~passes THEN "ratelimited"
  ELSE IF firstMessage(s) THEN
    IF ~Parses(data) THEN "badjson"
    ELSE IF authRequired(s) THEN
      IF JSONparse(data).kind = "null" THEN "threw"
      ELSE IF ~tokenMatches(JSONparse(data)) THEN "authfail"
      ELSE "authok"
    ELSE IF validateSubscription(JSONparse(data)).threw THEN "validthrew"
    ELSE IF ~validateSubscription(JSONparse(data)).valid THEN "invalid"
    ELSE "accepted"
  ELSE IF s.upstream = "OPEN" THEN "relayed"
  ELSE "dropped"

(* the closure's variables and the downstream socket after the handler *)
SessionAfterMessage(s, data, branch) ==
  CASE branch = "ratelimited" -> clientClose(s, 1008, "Rate limit exceeded")
    [] branch = "badjson" -> clearTimeout(clientClose(s, 1007, "Invalid JSON"))
    [] branch = "authfail" -> clearTimeout(clientClose(s, 1008, "Authentication failed"))
    [] branch = "authok" -> [s EXCEPT !.authenticated = TRUE]
    [] branch = "invalid" ->
         clearTimeout(clientClose(s, 1007, validateSubscription(JSONparse(data)).error))
    [] branch = "accepted" ->
         [timeoutAfterValidation(s) EXCEPT
            !.subscriptionStr =
               JSONstringify(injectApiKey(validateSubscription(JSONparse(data)).subscription)),
            !.upstream = "CONNECTING"]
    [] OTHER -> s

ReleasingBranches == {"badjson", "authfail", "invalid"}
ValidatingBranches == {"validthrew", "invalid", "accepted"}

CanReceive(s) ==
  /\ s.admitted
  /\ \/ s.client = "OPEN"
     \/ s.client = "CLOSING" /\ s.closeBy = "gateway"

OnClientMessage(c, data) ==
  LET s == session[c]
      rate == checkMessageRateLimit(messageRateLimits, c, now)
      branch == MessageBranch(s, data, rate.ok)
  IN
  /\ ~crashed
  /\ CanReceive(s)
  /\ messageRateLimits' = rate.limits
  /\ session' = [session EXCEPT ![c] = SessionAfterMessage(s, data, branch)]
  /\ connectionsByIP' =
       IF branch \in ReleasingBranches
         THEN releaseIPConnection(connectionsByIP, s.clientIP)
         ELSE connectionsByIP
  /\ upstreamOut' =
       IF branch = "relayed"
         THEN [upstreamOut EXCEPT ![c] = upstreamSend(@, data)]
         ELSE upstreamOut
  /\ clientOut' =
       IF branch = "authok" /\ s.client = "OPEN"
         THEN [clientOut EXCEPT ![c] = Append(@, AckFrame)]
         ELSE clientOut
  /\ crashed' = (branch \in {"threw", "validthrew"})
  /\ obs' = [obs EXCEPT
       ![c].received = @ + 1,
       ![c].passed = IF rate.ok THEN Append(@, now) ELSE @,
       ![c].releases = IF branch \in ReleasingBranches THEN @ + 1 ELSE @,
       ![c].validated = IF branch \in ValidatingBranches THEN @ + 1 ELSE @,
       ![c].upstreams = IF branch = "accepted" THEN @ + 1 ELSE @,
       ![c].acks = IF branch = "authok" /\ s.client = "OPEN" THEN @ + 1 ELSE @,
       ![c].accepted = IF branch = "accepted" THEN JSONparse(data) ELSE @]
  /\ UNCHANGED <<AUTH_TOKEN, now>>

(* ------------------------------------------------------------------ *)
(* The subscription timer and the downstream socket's events            *)
(* ------------------------------------------------------------------ *)
(* the callback of setTimeout(..., SUBSCRIPTION_TIMEOUT_MS) *)
timeoutActs(s) == s.upstream = "null"

SubscriptionTimeout(c) ==
  LET s == [session[c] EXCEPT !.subscriptionTimeout = "fired"] IN
  /\ ~crashed
  /\ session[c].subscriptionTimeout = "armed"
  /\ session' = [session EXCEPT ![c] =
       IF timeoutActs(s) THEN clientClose(s, 1008, "Subscription timeout") ELSE s]
  /\ connectionsByIP' =
       IF timeoutActs(s) THEN releaseIPConnection(connectionsByIP, s.clientIP)
       ELSE connectionsByIP
  /\ obs' = [obs EXCEPT ![c].releases = IF timeoutActs(s) THEN @ + 1 ELSE @]
  /\ UNCHANGED <<AUTH_TOKEN, messageRateLimits, upstreamOut, clientOut, now, crashed>>

(* upstream.close() of the ws library, guarded by readyState === OPEN *)
closeUpstreamIfOpen(s) ==
  IF s.upstream = "OPEN" THEN [s EXCEPT !.upstream = "CLOSING"] ELSE s

(* what client.on("close") and client.on("error") both do *)
Teardown(c, s) ==
  /\ session' = [session EXCEPT ![c] = closeUpstreamIfOpen(clearTimeout(s))]
  /\ connectionsByIP' = releaseIPConnection(connectionsByIP, s.clientIP)
  /\ messageRateLimits' = [messageRateLimits EXCEPT ![c] = NoLimit]
  /\ obs' = [obs EXCEPT ![c].releases = @ + 1]
  /\ UNCHANGED <<AUTH_TOKEN, upstreamOut, clientOut, now, crashed>>

(* the peer's close frame arrives: the socket answers it and is CLOSING *)
ClientCloseFrame(c) ==
  /\ ~crashed
  /\ session[c].admitted
  /\ session[c].client = "OPEN"
  /\ session' = [session EXCEPT ![c].client = "CLOSING",
                                ![c].close = <<1005, "">>,
                                ![c].closeBy = "peer"]
  /\ UNCHANGED <<AUTH_TOKEN, connectionsByIP, messageRateLimits, upstreamOut,
                 clientOut, obs, now, crashed>>

(* client.on("close") *)
OnClientClose(c) ==
  /\ ~crashed
  /\ session[c].admitted
  /\ session[c].client \in {"OPEN", "CLOSING"}
  /\ Teardown(c, [session[c] EXCEPT
        !.client = "CLOSED",
        !.close = IF session[c].client = "OPEN" THEN <<1006, "">> ELSE @])

(* client.on("error"): the socket is destroyed, its "close" event follows *)
OnClientError(c) ==
  /\ ~crashed
  /\ session[c].admitted
  /\ session[c].client \in {"OPEN", "CLOSING"}
  /\ session[c].closeBy # "error"
  /\ Teardown(c, [session[c] EXCEPT
        !.client = "CLOSING",
        !.close = IF session[c].client = "OPEN" THEN <<1006, "">> ELSE @,
        !.closeBy = "error"])

(* the "close" event of a socket the connection handler rejected: no
   handler is registered on it *)
RejectedClose(c) ==
  /\ ~crashed
  /\ ~session[c].admitted
  /\ session[c].client = "CLOSING"
  /\ session' = [session EXCEPT ![c].client = "CLOSED"]
  /\ UNCHANGED <<AUTH_TOKEN, connectionsByIP, messageRateLimits, upstreamOut,
                 clientOut, obs, now, crashed>>

(* ------------------------------------------------------------------ *)
(* The upstream socket's events                                         *)
(* ------------------------------------------------------------------ *)
(* upstream.on("open") *)
OnUpstreamOpen(c) ==
  /\ ~crashed
  /\ session[c].upstream = "CONNECTING"
  /\ session' = [session EXCEPT ![c].upstream = "OPEN"]
  /\ upstreamOut' = [upstreamOut EXCEPT ![c] = Append(@, session[c].subscriptionStr)]
  /\ UNCHANGED <<AUTH_TOKEN, connectionsByIP, messageRateLimits, clientOut, obs,
                 now, crashed>>

(* upstream.on("message") *)
OnUpstreamMessage(c, data) ==
  /\ ~crashed
  /\ session[c].upstream \in {"OPEN", "CLOSING"}
  /\ clientOut' =
       IF session[c].client = "OPEN"
         THEN [clientOut EXCEPT ![c] = clientSendToString(@, data)]
         ELSE clientOut
  /\ obs' = [obs EXCEPT ![c].fed = @ + 1]
  /\ UNCHANGED <<AUTH_TOKEN, connectionsByIP, messageRateLimits, session,
                 upstreamOut, now, crashed>>

(* an upstream "close" handler that leaves the downstream socket alone *)
OnUpstreamCloseQuiet(c) ==
  /\ ~crashed
  /\ session[c].upstream \in {"CONNECTING", "OPEN", "CLOSING", "ERRORED"}
  /\ session' = [session EXCEPT ![c].upstream = "CLOSED"]
  /\ UNCHANGED <<AUTH_TOKEN, connectionsByIP, messageRateLimits, upstreamOut,
                 clientOut, obs, now, crashed>>

(* upstream.on("close") *)
OnUpstreamClose(c) ==
  /\ ~crashed
  /\ session[c].upstream \in {"CONNECTING", "OPEN", "CLOSING", "ERRORED"}
  /\ session' = [session EXCEPT ![c] =
       clientClose([session[c] EXCEPT !.upstream = "CLOSED"], 1005, "")]
  /\ UNCHANGED <<AUTH_TOKEN, connectionsByIP, messageRateLimits, upstreamOut,
                 clientOut, obs, now, crashed>>

(* upstream.on("error"): the socket is destroyed, its "close" event follows *)
OnUpstreamError(c) ==
  /\ ~crashed
  /\ session[c].upstream \in {"CONNECTING", "OPEN", "CLOSING"}
  /\ session' = [session EXCEPT ![c] =
       clientClose([session[c] EXCEPT !.upstream = "ERRORED"], 1005, "")]
  /\ UNCHANGED <<AUTH_TOKEN, connectionsByIP, messageRateLimits, upstreamOut,
                 clientOut, obs, now, crashed>>

(* time passes *)
Tick(d) ==
  /\ ~crashed
  /\ now' = now + d
  /\ UNCHANGED <<AUTH_TOKEN, connectionsByIP, messageRateLimits, session,
                 upstreamOut, clientOut, obs, crashed>>

(* SIGINT or SIGTERM arrives.  server.js registers no handler for either,
   so the signal has its default disposition: the process ends at once,
   and no line of server.js runs for it. *)
OnSignal(sig) ==
  /\ ~crashed
  /\ sig \in {"SIGINT", "SIGTERM"}
  /\ crashed' = TRUE
  /\ UNCHANGED <<AUTH_TOKEN, connectionsByIP, messageRateLimits, session,
                 upstreamOut, clientOut, obs, now>>

(* ------------------------------------------------------------------ *)
(* geo.ts.  Latitudes and longitudes are in 1/10000 degree, distances in *)
(* millionths of a nautical mile, speeds in tenths of a knot, courses in *)
(* tenths of a degree.                                                   *)
(* ------------------------------------------------------------------ *)
BRIDGE_CENTER_LAT == 429982
BRIDGE_CENTER_LNG == -824230
CLOSE_APPROACH_DISTANCE_NM == 500000

(* EARTH_RADIUS_NM * DEG_TO_RAD / 10000 = 0.006004046 NM for each unit of
   latitude *)
MICRO_NM_PER_LAT_UNIT == 6004

(* The Haversine formula between two points of one meridian, where
   a = sin^2(dLat / 2) and c = |dLat|: the distance is EARTH_RADIUS_NM
   times |dLat| in radians.  Every position of the model that has its
   distance taken lies on the meridian of the bridge. *)
haversineDistanceNM(lat1, lon1, lat2, lon2) ==
  MICRO_NM_PER_LAT_UNIT * Abs(lat2 - lat1)

distanceToBridge(lat, lon) ==
  haversineDistanceNM(lat, lon, BRIDGE_CENTER_LAT, BRIDGE_CENTER_LNG)

(* the % of JavaScript: the remainder has the sign of the dividend *)
JSrem(a, b) == IF a >= 0 THEN a % b ELSE -((-a) % b)

(* a direction taken from the course as reported, not normalized *)
getDirectionOfRawCourse(cog, lat) ==
  IF cog > 3150 \/ cog < 450 THEN "northbound"
  ELSE IF cog > 1350 /\ cog < 2250 THEN "southbound"
  ELSE IF lat > BRIDGE_CENTER_LAT THEN "southbound" ELSE "northbound"

getDirection(cog, lat) ==
  LET heading == JSrem(JSrem(cog, 3600) + 3600, 3600) IN
  IF heading > 3150 \/ heading < 450 THEN "northbound"
  ELSE IF heading > 1350 /\ heading < 2250 THEN "southbound"
  ELSE IF lat > BRIDGE_CENTER_LAT THEN "southbound" ELSE "northbound"

(* ------------------------------------------------------------------ *)
(* bridge-detector.ts                                                   *)
(* ------------------------------------------------------------------ *)
COOLDOWN_MS == 1800000
STALE_TIMEOUT_MS == 900000
MIN_SOG == 5
Infinity == 2147483647

VARIABLES
  vessels,             \* mmsi -> TrackedVessel, tracked FALSE when there is none
  notifiedVessels,     \* mmsi -> timestamp of last notification, 0 when none
  detNow,              \* Date.now() of the notifier process
  returned,            \* what the last call of the detector returned
  lastValid,           \* mmsi -> the vessel's last valid position report: its
                       \* distance, and whether it was the vessel's first
  lastEvent            \* mmsi -> time of the last Crossing Event returned for
                       \* the vessel, 0 when none was

detVars == <<vessels, notifiedVessels, detNow, returned, lastValid, lastEvent>>

(* notifier.ts *)
VARIABLES
  config,              \* wsAuthToken and wsProxyUrl of the notifier
  notifier,            \* the fields of the VesselNotifier
  sockets,             \* the WebSockets the notifier has created, in order
  timers,              \* the timeouts and the interval pending in the event loop
  posts,               \* mmsi -> times of the POSTs attempted for the vessel
  ntfObs,              \* what has happened in the notifier so far
  ui                   \* the UI stream hook: its effect, sockets and ships

ntfVars == <<config, notifier, sockets, timers, posts, ntfObs>>

vars == <<gwVars, detVars, ntfVars, ui>>

NoVessel ==
  [tracked |-> FALSE, mmsi |-> 0, name |-> "", latitude |-> 0, longitude |-> 0,
   cog |-> 0, sog |-> 0, distanceToBridge |-> 0, lastUpdate |-> 0,
   destination |-> Absent, shipType |-> 0, length |-> -1]

NoEvent ==
  [fired |-> FALSE, mmsi |-> 0, name |-> "", speed |-> 0, course |-> 0,
   distance |-> 0, direction |-> "", timestamp |-> 0,
   destination |-> Absent, shipType |-> 0, length |-> -1]

(* what a call returned: a crossing event or null, and for cleanupStale
   the number it removed *)
Returned(call, event, removed) == [call |-> call, event |-> event, removed |-> removed]

(* String.prototype.trim on the names of the model *)
Trim(s) ==
  CASE s = " ALGOMA NIAGARA " -> "ALGOMA NIAGARA"
    [] s = "   " -> ""
    [] OTHER -> s

(* a message of type PositionReport *)
PositionMessage(mmsi, shipName, lat, lon, cog, sog) ==
  [type |-> "PositionReport", MMSI |-> mmsi, ShipName |-> shipName,
   Latitude |-> lat, Longitude |-> lon, Cog |-> cog, Sog |-> sog,
   Name |-> "", Destination |-> "", Type |-> 0, hasDimension |-> FALSE,
   A |-> 0, B |-> 0]

(* a message of type ShipStaticData *)
StaticMessage(mmsi, name, destination, type, hasDimension, a, b) ==
  [type |-> "ShipStaticData", MMSI |-> mmsi, ShipName |-> name,
   Latitude |-> 0, Longitude |-> 0, Cog |-> 0, Sog |-> 0,
   Name |-> name, Destination |-> destination, Type |-> type,
   hasDimension |-> hasDimension, A |-> a, B |-> b]

DetectorInit(mmsis) ==
  /\ vessels = [m \in mmsis |-> NoVessel]
  /\ notifiedVessels = [m \in mmsis |-> 0]
  /\ detNow = 1
  /\ returned = Returned("none", NoEvent, 0)
  /\ lastValid = [m \in mmsis |-> [distance |-> Infinity, first |-> FALSE]]
  /\ lastEvent = [m \in mmsis |-> 0]

(* a position guard that does not look at the longitude's range *)
validPositionByLatitude(lat, lon) ==
  /\ ~(lat = 0 /\ lon = 0)
  /\ ~(lat < -900000 \/ lat > 900000)

(* Skip invalid positions *)
validPosition(lat, lon) ==
  /\ ~(lat = 0 /\ lon = 0)
  /\ ~(lat < -900000 \/ lat > 900000 \/ lon < -1800000 \/ lon > 1800000)

(* existing?.distanceToBridge ?? Infinity *)
previousDistance(existing) ==
  IF existing.tracked THEN existing.distanceToBridge ELSE Infinity

(* a crossing test that fires on every report within the threshold *)
crossingWithoutEdge(previous, distance, sog) ==
  distance <= CLOSE_APPROACH_DISTANCE_NM /\ sog >= MIN_SOG

(* a crossing test that does not ask whether the vessel moves *)
crossingAtAnySpeed(previous, distance, sog) ==
  previous > CLOSE_APPROACH_DISTANCE_NM /\ distance <= CLOSE_APPROACH_DISTANCE_NM

(* Check for bridge crossing: was farther than threshold, now closer *)
crossing(previous, distance, sog) ==
  /\ previous > CLOSE_APPROACH_DISTANCE_NM
  /\ distance <= CLOSE_APPROACH_DISTANCE_NM
  /\ sog >= MIN_SOG

(* a cooldown that lasts only as long as a vessel stays tracked *)
onCooldownUntilStale(lastNotified, t) ==
  lastNotified # 0 /\ t - lastNotified < STALE_TIMEOUT_MS

(* Check cooldown: lastNotified && now - lastNotified < cooldownMs *)
onCooldown(lastNotified, t) ==
  lastNotified # 0 /\ t - lastNotified < COOLDOWN_MS

(* an upsert that takes the name of the report when it has one *)
trackedVesselRenamed(existing, message, distance, t) ==
  [tracked |-> TRUE,
   mmsi |-> message.MMSI,
   name |-> IF Trim(message.ShipName) # "" THEN Trim(message.ShipName)
            ELSE IF existing.tracked /\ existing.name # "" THEN existing.name
            ELSE "MMSI " \o ToString(message.MMSI),
   latitude |-> message.Latitude,
   longitude |-> message.Longitude,
   cog |-> message.Cog,
   sog |-> message.Sog,
   distanceToBridge |-> distance,
   lastUpdate |-> t,
   destination |-> existing.destination,
   shipType |-> existing.shipType,
   length |-> existing.length]

trackedVessel(existing, message, distance, t) ==
  [tracked |-> TRUE,
   mmsi |-> message.MMSI,
   name |-> IF existing.tracked /\ existing.name # "" THEN existing.name
            ELSE IF Trim(message.ShipName) # "" THEN Trim(message.ShipName)
            ELSE "MMSI " \o ToString(message.MMSI),
   latitude |-> message.Latitude,
   longitude |-> message.Longitude,
   cog |-> message.Cog,
   sog |-> message.Sog,
   distanceToBridge |-> distance,
   lastUpdate |-> t,
   destination |-> existing.destination,
   shipType |-> existing.shipType,
   length |-> existing.length]

crossingEvent(vessel, message, distance, t) ==
  [fired |-> TRUE, mmsi |-> message.MMSI, name |-> vessel.name,
   speed |-> message.Sog, course |-> message.Cog, distance |-> distance,
   direction |-> getDirection(message.Cog, message.Latitude),
   timestamp |-> t, destination |-> vessel.destination,
   shipType |-> vessel.shipType, length |-> vessel.length]

processPositionReport(message) ==
  LET mmsi == message.MMSI
      existing == vessels[mmsi]
      distance == distanceToBridge(message.Latitude, message.Longitude)
      vessel == trackedVessel(existing, message, distance, detNow)
      fires == /\ crossing(previousDistance(existing), distance, message.Sog)
               /\ ~onCooldown(notifiedVessels[mmsi], detNow)
  IN
  IF ~validPosition(message.Latitude, message.Longitude)
    THEN /\ returned' = Returned("position", NoEvent, 0)
         /\ UNCHANGED <<vessels, notifiedVessels, lastValid, lastEvent>>
    ELSE /\ vessels' = [vessels EXCEPT ![mmsi] = vessel]
         /\ notifiedVessels' =
              IF fires THEN [notifiedVessels EXCEPT ![mmsi] = detNow]
              ELSE notifiedVessels
         /\ returned' =
              Returned("position",
                       IF fires THEN crossingEvent(vessel, message, distance, detNow)
                       ELSE NoEvent, 0)
         /\ lastValid' = [lastValid EXCEPT ![mmsi] =
                            [distance |-> distance, first |-> @.distance = Infinity]]
         /\ lastEvent' = IF fires THEN [lastEvent EXCEPT ![mmsi] = detNow]
                         ELSE lastEvent

(* static data that starts a record for a vessel that has none *)
processStaticDataCreating(message) ==
  /\ vessels' = [vessels EXCEPT ![message.MMSI] =
                   [@ EXCEPT !.tracked = TRUE, !.mmsi = message.MMSI,
                             !.name = Trim(message.Name)]]
  /\ returned' = Returned("static", NoEvent, 0)
  /\ UNCHANGED <<notifiedVessels, lastValid, lastEvent>>

(* a processStaticData that also refreshes lastUpdate *)
processStaticDataTouching(message) ==
  /\ vessels' =
       IF vessels[message.MMSI].tracked
         THEN [vessels EXCEPT ![message.MMSI] =
                [@ EXCEPT !.destination = Trim(message.Destination),
                          !.lastUpdate = detNow]]
         ELSE vessels
  /\ returned' = Returned("static", NoEvent, 0)
  /\ UNCHANGED <<notifiedVessels, lastValid, lastEvent>>

processStaticData(message) ==
  LET mmsi == message.MMSI
      existing == vessels[mmsi]
  IN
  /\ vessels' =
       IF existing.tracked
         THEN [vessels EXCEPT ![mmsi] =
                [existing EXCEPT
                   !.name = IF Trim(message.Name) # "" THEN Trim(message.Name) ELSE @,
                   !.destination = IF Trim(message.Destination) # ""
                                     THEN Trim(message.Destination) ELSE @,
                   !.shipType = IF message.Type # 0 THEN message.Type ELSE @,
                   !.length = IF message.hasDimension
                                THEN message.A + message.B ELSE @]]
         ELSE vessels
  /\ returned' = Returned("static", NoEvent, 0)
  /\ UNCHANGED <<notifiedVessels, lastValid, lastEvent>>

(* BridgeDetector.processMessage *)
processMessage(message) ==
  /\ IF message.type = "PositionReport"
       THEN processPositionReport(message)
       ELSE IF message.type = "ShipStaticData"
         THEN processStaticData(message)
         ELSE /\ returned' = Returned("other", NoEvent, 0)
              /\ UNCHANGED <<vessels, notifiedVessels, lastValid, lastEvent>>
  /\ UNCHANGED detNow

(* a sweep that counts the Cooldown Records it removes as well *)
cleanupStaleCountingBoth ==
  LET stale == {m \in DOMAIN vessels :
                  vessels[m].tracked /\ detNow - vessels[m].lastUpdate > STALE_TIMEOUT_MS}
      old == {m \in DOMAIN notifiedVessels :
                notifiedVessels[m] # 0 /\ detNow - notifiedVessels[m] > COOLDOWN_MS}
  IN
  /\ vessels' = [m \in DOMAIN vessels |-> IF m \in stale THEN NoVessel ELSE vessels[m]]
  /\ notifiedVessels' =
       [m \in DOMAIN notifiedVessels |-> IF m \in old THEN 0 ELSE notifiedVessels[m]]
  /\ returned' = Returned("cleanup", NoEvent, Cardinality(stale) + Cardinality(old))
  /\ UNCHANGED <<detNow, lastValid, lastEvent>>

(* BridgeDetector.cleanupStale *)
cleanupStale ==
  LET stale == {m \in DOMAIN vessels :
                  vessels[m].tracked /\ detNow - vessels[m].lastUpdate > STALE_TIMEOUT_MS}
      old == {m \in DOMAIN notifiedVessels :
                notifiedVessels[m] # 0 /\ detNow - notifiedVessels[m] > COOLDOWN_MS}
  IN
  /\ vessels' = [m \in DOMAIN vessels |-> IF m \in stale THEN NoVessel ELSE vessels[m]]
  /\ notifiedVessels' =
       [m \in DOMAIN notifiedVessels |-> IF m \in old THEN 0 ELSE notifiedVessels[m]]
  /\ returned' = Returned("cleanup", NoEvent, Cardinality(stale))
  /\ UNCHANGED <<detNow, lastValid, lastEvent>>

(* time passes in the notifier process *)
DetectorTick(d) ==
  /\ detNow' = detNow + d
  /\ UNCHANGED <<vessels, notifiedVessels, returned, lastValid, lastEvent>>

(* ------------------------------------------------------------------ *)
(* notifier.ts: the VesselNotifier and its stream client                *)
(* ------------------------------------------------------------------ *)
INITIAL_RECONNECT_DELAY == 2000
maxReconnectDelay == 60000

Min(a, b) == IF a < b THEN a ELSE b

(* a socket: what the notifier sent on it, the acknowledgements it got on
   it, whether it opened and whether it failed with an error *)
NoSocket ==
  [readyState |-> "NONE", sent |-> <<>>, acks |-> 0, opened |-> FALSE,
   failed |-> FALSE]

(* the fields of a new VesselNotifier; ws and reconnectTimer are 0 for null *)
NewNotifier ==
  [running |-> FALSE, ws |-> 0, reconnectTimer |-> 0, cleanupTimer |-> FALSE,
   reconnectDelay |-> INITIAL_RECONNECT_DELAY]

NoNtfObs ==
  [started |-> FALSE, stopped |-> FALSE, connects |-> 0, schedules |-> 0,
   armed |-> 0, threw |-> FALSE, settled |-> <<>>]

NoTimers == [reconnect |-> 0, cleanup |-> 0]

(* the notifier, its sockets, its timers and its history, as one value the
   methods below take and give back *)
Process(n, ss, tm, o) == [n |-> n, ss |-> ss, tm |-> tm, o |-> o]

NotifierInit(urls, tokens, socketIds, mmsis) ==
  /\ config \in [wsProxyUrl : urls, wsAuthToken : tokens]
  /\ notifier = NewNotifier
  /\ sockets = [s \in socketIds |-> NoSocket]
  /\ timers = NoTimers
  /\ posts = [m \in mmsis |-> <<>>]
  /\ ntfObs = NoNtfObs

(* no notifier in the picture *)
NotifierIdle == NotifierInit({"ws://localhost:3001"}, {Absent}, {}, {})

(* new WebSocket(url) throws on a URL it cannot parse *)
ValidUrl(url) == url = "ws://localhost:3001"

Created(ss) == Cardinality({s \in DOMAIN ss : ss[s].readyState # "NONE"})

(* the reconnect timer is armed without regard to the delay in force *)
scheduleReconnectFlat(P) ==
  IF ~P.n.running THEN P
  ELSE [P EXCEPT !.n.reconnectTimer = INITIAL_RECONNECT_DELAY,
                 !.tm.reconnect = @ + 1,
                 !.o.schedules = @ + 1,
                 !.o.armed = INITIAL_RECONNECT_DELAY]

(* VesselNotifier.scheduleReconnect *)
scheduleReconnect(P) ==
  IF ~P.n.running THEN P
  ELSE [P EXCEPT !.n.reconnectTimer = P.n.reconnectDelay,
                 !.tm.reconnect = @ + 1,
                 !.n.reconnectDelay = Min(P.n.reconnectDelay * 2, maxReconnectDelay),
                 !.o.schedules = @ + 1,
                 !.o.armed = P.n.reconnectDelay]

(* VesselNotifier.connect *)
connect(P) ==
  IF ~P.n.running THEN P
  ELSE IF ~ValidUrl(config.wsProxyUrl)
    THEN scheduleReconnect([P EXCEPT !.o.connects = @ + 1])
    ELSE LET s == Created(P.ss) + 1 IN
         [P EXCEPT !.n.ws = s,
                   !.ss[s].readyState = "CONNECTING",
                   !.o.connects = @ + 1]

(* WebSocket.close(): nothing on a socket that is closing or closed *)
socketClose(ss, s) ==
  IF ss[s].readyState \in {"CONNECTING", "OPEN"}
    THEN [ss EXCEPT ![s].readyState = "CLOSING"]
    ELSE ss

(* VesselNotifier.start *)
start(P) ==
  IF P.n.running THEN P
  ELSE LET Q == connect([P EXCEPT !.n.running = TRUE, !.o.started = TRUE]) IN
       [Q EXCEPT !.n.cleanupTimer = TRUE, !.tm.cleanup = @ + 1]

(* a stop that clears the flag and closes the socket but leaves the timers *)
stopLeavingTimers(P) ==
  LET P1 == [P EXCEPT !.n.running = FALSE, !.o.stopped = TRUE] IN
  IF P1.n.ws # 0
    THEN [P1 EXCEPT !.ss = socketClose(P1.ss, P1.n.ws), !.n.ws = 0]
    ELSE P1

(* VesselNotifier.stop *)
stop(P) ==
  LET P1 == [P EXCEPT !.n.running = FALSE, !.o.stopped = TRUE]
      P2 == IF P1.n.reconnectTimer # 0
              THEN [P1 EXCEPT !.tm.reconnect = @ - 1, !.n.reconnectTimer = 0]
              ELSE P1
      P3 == IF P2.n.cleanupTimer
              THEN [P2 EXCEPT !.tm.cleanup = @ - 1, !.n.cleanupTimer = FALSE]
              ELSE P2
  IN
  IF P3.n.ws # 0
    THEN [P3 EXCEPT !.ss = socketClose(P3.ss, P3.n.ws), !.n.ws = 0]
    ELSE P3

(* a box around the bridge, in whole degrees *)
TrackingBox == Box(42, -83, 43, -82)

(* JSON.stringify({ authToken: this.config.wsAuthToken }) *)
authTokenFrame == Frame(Obj(config.wsAuthToken, NoField, NoField, Absent, Absent))

(* JSON.stringify(subscription) of VesselNotifier.subscribe *)
subscriptionFrame ==
  Frame(Obj(Absent, Array(<<TrackingBox>>),
            Array(<<MsgTypeStr("PositionReport"), MsgTypeStr("ShipStaticData")>>),
            Absent, Absent))

(* this.ws.send(data): a TypeError when this.ws is null, an Error when the
   socket is still connecting, nothing on a closing or closed one *)
wsSend(P, data) ==
  IF P.n.ws = 0 \/ P.ss[P.n.ws].readyState = "CONNECTING"
    THEN [P EXCEPT !.o.threw = TRUE]
  ELSE IF P.ss[P.n.ws].readyState = "OPEN"
    THEN [P EXCEPT !.ss[P.n.ws].sent = Append(@, data)]
  ELSE P

(* VesselNotifier.subscribe *)
subscribe(P) ==
  IF P.n.ws = 0 \/ P.ss[P.n.ws].readyState # "OPEN" THEN P
  ELSE wsSend(P, subscriptionFrame)

(* an open handler that leaves the reconnect delay as it is *)
onOpenKeepingDelay(P) ==
  LET Q == [P EXCEPT !.o.schedules = 0] IN
  IF config.wsAuthToken # Absent
    THEN wsSend(Q, authTokenFrame)
    ELSE subscribe(Q)

(* an open handler that subscribes without waiting for the acknowledgement *)
onOpenEager(P) ==
  LET Q == [P EXCEPT !.n.reconnectDelay = INITIAL_RECONNECT_DELAY,
                     !.o.schedules = 0]
  IN
  IF config.wsAuthToken # Absent
    THEN subscribe(wsSend(Q, authTokenFrame))
    ELSE subscribe(Q)

(* this.ws.on("open") *)
onOpen(P) ==
  LET Q == [P EXCEPT !.n.reconnectDelay = INITIAL_RECONNECT_DELAY,
                     !.o.schedules = 0]
  IN
  IF config.wsAuthToken # Absent
    THEN wsSend(Q, authTokenFrame)
    ELSE subscribe(Q)

(* a close handler that forgets the socket and does not reconnect *)
onCloseOnly(P) == [P EXCEPT !.n.ws = 0]

(* this.ws.on("close") *)
onClose(P) == scheduleReconnect([P EXCEPT !.n.ws = 0])

(* the callback of the reconnect timer *)
onReconnectTimer(P) == connect([P EXCEPT !.n.reconnectTimer = 0])

(* what the stream client receives: text that is no JSON, JSON null, the
   gateway's acknowledgement, an object without MessageType or MetaData,
   and an AIS message *)
Data(kind, message) == [kind |-> kind, message |-> message]
NoMessage == StaticMessage(0, "", "", 0, FALSE, 0, 0)
GarbageData == Data("garbage", NoMessage)
NullData == Data("null", NoMessage)
AuthenticatedData == Data("authenticated", NoMessage)
IncompleteData == Data("incomplete", NoMessage)
AISData(message) == Data("ais", message)

Cur == Process(notifier, sockets, timers, ntfObs)

SetProcess(P) ==
  /\ notifier' = P.n
  /\ sockets' = P.ss
  /\ timers' = P.tm
  /\ ntfObs' = P.o

(* notifier.start() of index.ts; the process does not start a notifier it
   has stopped *)
Start ==
  /\ ~ntfObs.stopped
  /\ SetProcess(start(Cur))
  /\ UNCHANGED <<config, posts, detVars>>

(* notifier.stop() *)
Stop ==
  /\ SetProcess(stop(Cur))
  /\ UNCHANGED <<config, posts, detVars>>

(* the handshake of socket s completes *)
OnOpen(s) ==
  /\ sockets[s].readyState = "CONNECTING"
  /\ SetProcess(onOpen([Cur EXCEPT !.ss[s].readyState = "OPEN",
                                   !.ss[s].opened = TRUE]))
  /\ UNCHANGED <<config, posts, detVars>>

(* socket s fails: the error handler logs, the close event follows *)
OnError(s) ==
  /\ sockets[s].readyState \in {"CONNECTING", "OPEN"}
  /\ sockets' = [sockets EXCEPT ![s].readyState = "CLOSING", ![s].failed = TRUE]
  /\ UNCHANGED <<config, notifier, timers, posts, ntfObs, detVars>>

(* socket s is closed, by the gateway or after close() or an error *)
OnClose(s) ==
  /\ sockets[s].readyState \in {"OPEN", "CLOSING"}
  /\ SetProcess(onClose([Cur EXCEPT !.ss[s].readyState = "CLOSED"]))
  /\ UNCHANGED <<config, posts, detVars>>

(* the reconnect timer fires *)
ReconnectTimer ==
  /\ timers.reconnect > 0
  /\ SetProcess(onReconnectTimer([Cur EXCEPT !.tm.reconnect = @ - 1]))
  /\ UNCHANGED <<config, posts, detVars>>

(* the cleanup interval fires *)
CleanupInterval ==
  /\ timers.cleanup > 0
  /\ cleanupStale
  /\ UNCHANGED ntfVars

(* a sink client that tries a second time *)
sendWithRetry(event) ==
  posts' = [posts EXCEPT ![event.mmsi] = Append(Append(@, event.timestamp), event.timestamp)]

(* the sink is asked once; the outcome of the POST changes nothing *)
sendCrossingNotification(event) ==
  posts' = [posts EXCEPT ![event.mmsi] = Append(@, event.timestamp)]

(* what fetch() comes back with: a response of some status, or a rejection
   for a network error *)
Response(status) == [kind |-> "response", status |-> status]
NetworkError == [kind |-> "error", status |-> 0]

(* a sink client that takes every status below 400 for success *)
responseOkBelow400(status) == status < 400

(* Response.ok of the Fetch standard: the status is in the range 200-299 *)
responseOk(status) == status >= 200 /\ status <= 299

(* NtfyClient.send from the await on: false for a response that is not ok,
   true for one that is, false from the catch block *)
send(outcome) ==
  IF outcome.kind = "response"
    THEN [resolved |-> responseOk(outcome.status), rejected |-> FALSE]
    ELSE [resolved |-> FALSE, rejected |-> FALSE]

(* the POSTs attempted so far *)
Posted == UNION {{<<m, i>> : i \in 1..Len(posts[m])} : m \in DOMAIN posts}

(* the fetch of a POST in flight settles and the promise of send does *)
FetchSettles(outcome) ==
  /\ Len(ntfObs.settled) < Cardinality(Posted)
  /\ ntfObs' = [ntfObs EXCEPT !.settled =
                  Append(@, [outcome |-> outcome,
                             resolved |-> send(outcome).resolved,
                             rejected |-> send(outcome).rejected])]
  /\ UNCHANGED <<config, notifier, sockets, timers, posts, detVars>>

(* messages reach the handler while the socket is open, and after close()
   until the close handshake is over *)
Delivers(sock) ==
  \/ sock.readyState = "OPEN"
  \/ sock.readyState = "CLOSING" /\ sock.opened /\ ~sock.failed

(* VesselNotifier.handleMessage, as the message handler of socket s *)
handleMessage(s, data) ==
  /\ Delivers(sockets[s])
  /\ IF data.kind = "authenticated"
       THEN /\ SetProcess(subscribe([Cur EXCEPT !.ss[s].acks = @ + 1]))
            /\ UNCHANGED <<posts, detVars>>
     ELSE IF data.kind = "ais"
       THEN /\ processMessage(data.message)
            /\ IF returned'.event.fired
                 THEN sendCrossingNotification(returned'.event)
                 ELSE UNCHANGED posts
            /\ UNCHANGED <<notifier, sockets, timers, ntfObs>>
     ELSE UNCHANGED <<notifier, sockets, timers, ntfObs, posts, detVars>>
  /\ UNCHANGED config

(* ------------------------------------------------------------------ *)
(* The UI stream hook (useAISStream): its connect effect and ships map  *)
(* ------------------------------------------------------------------ *)
(* STALE_SHIP_TIMEOUT_MS of constants/bridge, in seconds of the UI clock *)
STALE_SHIP_TIMEOUT == 600

(* an ISO string a Date can read, t seconds after the epoch, and a string
   no Date can read *)
Time(t) == [kind |-> "time", t |-> t]
InvalidDate == [kind |-> "invalid", t |-> 0]

(* MetaData.time_utc as received: "iso" is read by Date itself, "compact"
   has the 14 digits of a date, "digits" has 14 digits that are no date,
   "junk" has fewer digits, "missing" is no string at all *)
Raw(kind, t) == [kind |-> kind, t |-> t]

(* a parseTimeUtc whose fallback is the current time *)
parseTimeUtcNow(raw, clock) ==
  [threw |-> raw.kind = "missing",
   value |-> CASE raw.kind \in {"iso", "compact"} -> Time(raw.t)
               [] raw.kind = "digits" -> InvalidDate
               [] OTHER -> Time(clock)]

(* parseTimeUtc: raw.replace throws on a value that is no string *)
parseTimeUtc(raw, clock) ==
  [threw |-> raw.kind = "missing",
   value |-> CASE raw.kind \in {"iso", "compact"} -> Time(raw.t)
               [] raw.kind = "digits" -> InvalidDate
               [] OTHER -> Time(0)]

NoShip == [present |-> FALSE, lastUpdate |-> InvalidDate, destination |-> ""]
TrackedShip(lastUpdate, destination) ==
  [present |-> TRUE, lastUpdate |-> lastUpdate, destination |-> destination]

(* Date.now() - new Date(ship.lastUpdate).getTime() <= staleTimeout, false on NaN *)
Fresh(ship, clock, staleTimeout) ==
  ship.lastUpdate.kind = "time" /\ clock - ship.lastUpdate.t <= staleTimeout

(* shipsReducer; clock is what Date.now() gives *)
shipsReducer(state, action, clock) ==
  CASE action.type = "UPDATE_SHIP" ->
         [state EXCEPT ![action.mmsi] = action.ship]
    [] action.type = "UPDATE_STATIC_DATA" ->
         IF ~state[action.mmsi].present THEN state
         ELSE [state EXCEPT ![action.mmsi].destination = action.destination]
    [] action.type = "PURGE_STALE" ->
         [m \in DOMAIN state |->
            IF state[m].present /\ Fresh(state[m], clock, action.staleTimeout)
              THEN state[m] ELSE NoShip]
    [] OTHER -> state

(* what the hook receives: the acknowledgement, text that is no JSON or an
   object without MetaData, a position report, static data *)
UiData(kind, mmsi, time, destination) ==
  [kind |-> kind, mmsi |-> mmsi, time |-> time, destination |-> destination]

(* the last message the hook handled: its time_utc as received and the
   lastUpdate of the ship it dispatched, if it dispatched one *)
NotDispatched == [kind |-> "none", t |-> 0]
NoUiMessage ==
  [kind |-> "none", mmsi |-> 0, time |-> Raw("missing", 0),
   lastUpdate |-> NotDispatched]

(* the hook before its effect has run; sockets are the WebSockets the
   effect may create, wsRef and reconnectTimeoutRef are 0 for unset *)
NoUi(token, socketIds, mmsis, clock) ==
  [WS_AUTH_TOKEN |-> token, mounted |-> FALSE, isCleanedUp |-> FALSE,
   connectionStatus |-> "disconnected", wsRef |-> 0,
   reconnectTimeoutRef |-> 0, timer |-> FALSE,
   sockets |-> [s \in socketIds |-> NoSocket],
   ships |-> [m \in mmsis |-> NoShip], now |-> clock, connects |-> 0,
   messages |-> 0, threw |-> FALSE, last |-> NoUiMessage]

(* no UI in the picture *)
UiIdle == ui = NoUi(Absent, {}, {}, 0)

(* ws.send of the browser: an InvalidStateError while connecting, nothing
   on a closing or closed socket *)
uiSend(U, s, data) ==
  IF U.sockets[s].readyState = "CONNECTING" THEN [U EXCEPT !.threw = TRUE]
  ELSE IF U.sockets[s].readyState = "OPEN"
    THEN [U EXCEPT !.sockets[s].sent = Append(@, data)]
  ELSE U

(* ws.close() of the browser *)
uiClose(U, s) ==
  IF U.sockets[s].readyState \in {"CONNECTING", "OPEN"}
    THEN [U EXCEPT !.sockets[s].readyState = "CLOSING"]
    ELSE U

(* connect() of the effect *)
uiConnect(U) ==
  IF U.isCleanedUp THEN U
  ELSE [U EXCEPT !.connectionStatus = "connecting",
                 !.connects = @ + 1,
                 !.sockets[U.connects + 1].readyState = "CONNECTING",
                 !.wsRef = U.connects + 1]

(* JSON.stringify({ authToken: WS_AUTH_TOKEN }) *)
uiAuthFrame(U) == Frame(Obj(U.WS_AUTH_TOKEN, NoField, NoField, Absent, Absent))

(* an onopen that does not look at isCleanedUp *)
uiOnOpenUnguarded(U, s) ==
  LET Q == [U EXCEPT !.connectionStatus = "connected"]
  IN
  IF U.WS_AUTH_TOKEN # Absent
    THEN uiSend(uiSend(Q, s, uiAuthFrame(U)), s, subscriptionFrame)
    ELSE uiSend(Q, s, subscriptionFrame)

(* ws.onopen *)
uiOnOpen(U, s) ==
  IF U.isCleanedUp THEN uiClose(U, s)
  ELSE LET Q == [U EXCEPT !.connectionStatus = "connected"]
       IN
       IF U.WS_AUTH_TOKEN # Absent
         THEN uiSend(uiSend(Q, s, uiAuthFrame(U)), s, subscriptionFrame)
         ELSE uiSend(Q, s, subscriptionFrame)

(* processMessage, with the dispatches applied: a throw of parseTimeUtc
   leaves before anything is dispatched *)
uiProcessMessage(U, data) ==
  LET parsed == parseTimeUtc(data.time, U.now)
      existing == U.ships[data.mmsi]
      purge == [type |-> "PURGE_STALE", staleTimeout |-> STALE_SHIP_TIMEOUT]
  IN
  IF data.kind = "position"
    THEN IF parsed.threw THEN U
         ELSE LET ship == TrackedShip(parsed.value, existing.destination)
                  update == [type |-> "UPDATE_SHIP", mmsi |-> data.mmsi, ship |-> ship]
              IN [U EXCEPT !.ships = shipsReducer(shipsReducer(@, update, U.now),
                                                  purge, U.now),
                           !.last.lastUpdate = parsed.value]
    ELSE LET update == [type |-> "UPDATE_STATIC_DATA", mmsi |-> data.mmsi,
                        destination |-> data.destination]
         IN [U EXCEPT !.ships = shipsReducer(shipsReducer(@, update, U.now),
                                             purge, U.now)]

(* ws.onmessage: whatever is thrown inside is caught and logged *)
uiOnMessage(U, data) ==
  LET Q == [U EXCEPT !.messages = @ + 1,
                     !.last = [kind |-> data.kind, mmsi |-> data.mmsi,
                               time |-> data.time,
                               lastUpdate |-> NotDispatched]]
  IN
  IF data.kind \in {"authenticated", "malformed"} THEN Q
  ELSE uiProcessMessage(Q, data)

(* ws.onerror *)
uiOnError(U) ==
  IF U.isCleanedUp THEN U ELSE [U EXCEPT !.connectionStatus = "error"]

(* ws.onclose *)
uiOnClose(U) ==
  IF U.isCleanedUp THEN U
  ELSE [U EXCEPT !.connectionStatus = "disconnected",
                 !.reconnectTimeoutRef = 1, !.timer = TRUE]

(* the cleanup the effect returns *)
uiCleanup(U) ==
  LET Q == [U EXCEPT !.isCleanedUp = TRUE,
                     !.timer = IF U.reconnectTimeoutRef # 0 THEN FALSE ELSE @]
  IN IF Q.wsRef # 0 THEN uiClose(Q, Q.wsRef) ELSE Q

(* the component mounts: the effect runs and connects *)
UiMount ==
  /\ ~ui.mounted
  /\ ui' = uiConnect([ui EXCEPT !.mounted = TRUE])
  /\ UNCHANGED <<gwVars, detVars, ntfVars>>

(* the open event of socket s is delivered.  The connection may have been
   established just before close() was called on the connecting socket:
   the event then finds the socket open or already closing. *)
UiOnOpen(s, readyState) ==
  /\ ~ui.sockets[s].opened /\ ~ui.sockets[s].failed
  /\ \/ ui.sockets[s].readyState = "CONNECTING" /\ readyState = "OPEN"
     \/ ui.sockets[s].readyState = "CLOSING"
  /\ ui' = uiOnOpen([ui EXCEPT !.sockets[s].readyState = readyState,
                               !.sockets[s].opened = TRUE], s)
  /\ UNCHANGED <<gwVars, detVars, ntfVars>>

(* a message arrives on socket s, also while its close is under way *)
UiOnMessage(s, data) ==
  /\ ui.sockets[s].opened
  /\ ui.sockets[s].readyState \in {"OPEN", "CLOSING"}
  /\ ui' = uiOnMessage(ui, data)
  /\ UNCHANGED <<gwVars, detVars, ntfVars>>

(* socket s fails; its close event follows *)
UiOnError(s) ==
  /\ ui.sockets[s].readyState \in {"CONNECTING", "OPEN"}
  /\ ui' = uiOnError([ui EXCEPT !.sockets[s].readyState = "CLOSING",
                                !.sockets[s].failed = TRUE])
  /\ UNCHANGED <<gwVars, detVars, ntfVars>>

(* the close event of socket s is delivered *)
UiOnClose(s) ==
  /\ ui.sockets[s].readyState \in {"OPEN", "CLOSING"}
  /\ ui' = uiOnClose([ui EXCEPT !.sockets[s].readyState = "CLOSED"])
  /\ UNCHANGED <<gwVars, detVars, ntfVars>>

(* setTimeout(connect, 2000) fires *)
UiReconnectTimer ==
  /\ ui.timer
  /\ ui' = uiConnect([ui EXCEPT !.timer = FALSE])
  /\ UNCHANGED <<gwVars, detVars, ntfVars>>

(* the component unmounts *)
UiCleanup ==
  /\ ui.mounted /\ ~ui.isCleanedUp
  /\ ui' = uiCleanup(ui)
  /\ UNCHANGED <<gwVars, detVars, ntfVars>>

(* the clock of the browser advances *)
UiTick(seconds) ==
  /\ ui' = [ui EXCEPT !.now = @ + seconds]
  /\ UNCHANGED <<gwVars, detVars, ntfVars>>

(* ------------------------------------------------------------------ *)
(* The gateway with a few sessions and the messages a client may send   *)
(* ------------------------------------------------------------------ *)
PositionReports == Array(<<MsgTypeStr("PositionReport")>>)

GarbageFrame == Frame(Garbage)
NullFrame == Frame(JsonNull)
AuthFrame == Frame(Obj(SECRET, NoField, NoField, Absent, Absent))
WrongAuthFrame == Frame(Obj("wrong-token", NoField, NoField, Absent, Absent))
SubscribeFrame == Frame(Obj(Absent, Array(<<TrackingBox>>), PositionReports, Absent, Absent))
InjectingFrame ==
  Frame(Obj(Absent, Array(<<TrackingBox>>), PositionReports, "client-api-key", "x"))
UnfilteredFrame == Frame(Obj(Absent, Array(<<TrackingBox>>), NoField, Absent, Absent))
NoBoxesFrame == Frame(Obj(Absent, NoField, NoField, Absent, Absent))
BadCornerFrame == Frame(Obj(Absent, Array(<<BadCornerBox>>), NoField, Absent, Absent))

ClientFrames ==
  {GarbageFrame, NullFrame, AuthFrame, WrongAuthFrame, SubscribeFrame,
   InjectingFrame, UnfilteredFrame, NoBoxesFrame, BadCornerFrame}

(* One session with every event it can see.  Sessions share only
   connectionsByIP and the process itself, so what one session does with
   its messages, its timer and its upstream socket is checked on one. *)
Sessions == {1}
IPs == {"10.0.0.1"}

Init == GatewayInit(Sessions, IPs) /\ DetectorInit({}) /\ NotifierIdle /\ UiIdle

Next ==
  /\ \/ \E c \in Sessions, ip \in IPs : OnConnection(c, ip)
     \/ \E c \in Sessions, data \in ClientFrames :
          obs[c].received < MaxMsgs /\ OnClientMessage(c, data)
     \/ \E c \in Sessions : SubscriptionTimeout(c)
     \/ \E c \in Sessions : ClientCloseFrame(c)
     \/ \E c \in Sessions : OnClientClose(c)
     \/ \E c \in Sessions : OnClientError(c)
     \/ \E c \in Sessions : OnUpstreamOpen(c)
     \/ \E c \in Sessions : obs[c].fed < MaxFeed /\ OnUpstreamMessage(c, FeedFrame)
     \/ \E c \in Sessions : OnUpstreamClose(c)
     \/ \E c \in Sessions : OnUpstreamError(c)
  /\ UNCHANGED <<detVars, ntfVars, ui>>

Spec == Init /\ [][Next]_vars

(* ------------------------------------------------------------------ *)
(* Properties of one session                                            *)
(* ------------------------------------------------------------------ *)
TeardownRan(s) == s.client = "CLOSED" \/ s.closeBy = "error"

(* C3: once a downstream connection has closed or errored, its upstream
   connection is torn down too, also when the upstream socket was still
   connecting: no upstream socket is connecting or open, and nothing is
   sent upstream, for a session whose downstream socket is gone. *)
C3_UpstreamTornDown ==
  \A c \in AllConns :
    TeardownRan(session[c]) => session[c].upstream \notin {"CONNECTING", "OPEN"}

(* C4: every frame the gateway sends upstream is the validated, sanitized
   and augmented form of a client message; no raw client frame gets there. *)
C4_OnlyValidatedReachesUpstream ==
  \A c \in AllConns : \A i \in 1..Len(upstreamOut[c]) :
    \E data \in ClientFrames :
      /\ Parses(data)
      /\ validateSubscription(JSONparse(data)).valid
      /\ upstreamOut[c][i] =
           JSONstringify(injectApiKey(validateSubscription(JSONparse(data)).subscription))

(* C7: a session creates at most one upstream connection; once it has one,
   no further message is validated or replaces the subscription. *)
C7_AtMostOneUpstream ==
  /\ [](\A c \in AllConns : obs[c].upstreams <= 1)
  /\ [][\A c \in AllConns :
          session[c].upstream # "null" =>
            /\ obs'[c].upstreams = obs[c].upstreams
            /\ obs'[c].validated = obs[c].validated
            /\ session'[c].subscriptionStr = session[c].subscriptionStr]_vars

(* C7's case: a session with its one upstream connection has relayed a
   later message. *)
C7_Witness ==
  \E c \in AllConns : obs[c].upstreams = 1 /\ Len(upstreamOut[c]) >= 2
(* a frame that presents the configured shared secret *)
PresentsToken(data) == Parses(data) /\ JSONparse(data).authToken = AUTH_TOKEN

(* the gateway is about to treat data as the authentication message of c *)
AwaitsToken(c) ==
  /\ AUTH_TOKEN # Absent
  /\ ~session[c].authenticated
  /\ session[c].client = "OPEN"
  /\ session[c].upstream = "null"
  /\ checkMessageRateLimit(messageRateLimits, c, now).ok

(* C6: with a shared secret configured, nothing is validated and no upstream
   connection exists for a session that is not authenticated, and a session
   is authenticated only by a message that presents the secret; a message
   with another token closes the connection with 1008 "Authentication
   failed"; a message with the secret is answered by one acknowledgement,
   the only one of the session, and leaves the session without upstream and
   with its subscription timer as it was. *)
C6_AuthenticationFirst ==
  /\ [](\A c \in AllConns :
          /\ AUTH_TOKEN # Absent /\ ~session[c].authenticated =>
               obs[c].validated = 0 /\ session[c].upstream = "null"
          /\ obs[c].acks <= 1)
  /\ [][\A c \in AllConns : \A data \in ClientFrames :
          OnClientMessage(c, data) =>
            /\ ~session[c].authenticated /\ session'[c].authenticated =>
                 PresentsToken(data)
            /\ AwaitsToken(c) /\ IsObject(JSONparse(data)) /\ ~PresentsToken(data) =>
                 /\ session'[c].client = "CLOSING"
                 /\ session'[c].close = <<1008, "Authentication failed">>
                 /\ ~session'[c].authenticated
            /\ AwaitsToken(c) /\ PresentsToken(data) =>
                 /\ session'[c].authenticated
                 /\ clientOut'[c] = Append(clientOut[c], AckFrame)
                 /\ session'[c].client = "OPEN"
                 /\ session'[c].upstream = "null"
                 /\ session'[c].subscriptionTimeout = session[c].subscriptionTimeout
                 /\ obs'[c].validated = 0]_vars

(* C6's case: a session that presented the secret has its acknowledgement
   and waits, its timer running, for a subscription. *)
C6_Witness ==
  \E c \in AllConns :
    /\ AUTH_TOKEN = SECRET
    /\ session[c].authenticated
    /\ clientOut[c] = <<AckFrame>>
    /\ session[c].upstream = "null"
    /\ session[c].client = "OPEN"
    /\ session[c].subscriptionTimeout = "armed"

SubscriptionTimeoutClose == <<1008, "Subscription timeout">>

TimerFires(c) ==
  /\ session[c].subscriptionTimeout = "armed"
  /\ session'[c].subscriptionTimeout = "fired"

(* C8: the timer is pending only while no subscription has been accepted
   and neither the close nor the error handler has run, and once cancelled
   or fired it is never pending again; when it fires on an open socket it
   closes it with 1008 "Subscription timeout" and releases the slot, also
   for a session that authenticated and never subscribed; nothing else
   closes a connection with that reason. *)
C8_SubscriptionTimer ==
  /\ [](\A c \in AllConns :
          session[c].subscriptionTimeout = "armed" =>
            /\ session[c].upstream = "null"
            /\ obs[c].upstreams = 0
            /\ ~TeardownRan(session[c]))
  /\ [][\A c \in AllConns :
          /\ TimerFires(c) =>
               /\ obs'[c].releases = obs[c].releases + 1
               /\ session[c].client = "OPEN" =>
                    /\ session'[c].client = "CLOSING"
                    /\ session'[c].close = SubscriptionTimeoutClose
          /\ session'[c].close = SubscriptionTimeoutClose
               /\ session[c].close # SubscriptionTimeoutClose =>
                 TimerFires(c) /\ session[c].client = "OPEN"
          /\ session[c].subscriptionTimeout \in {"fired", "cleared"} =>
               session'[c].subscriptionTimeout = session[c].subscriptionTimeout]_vars

(* C8's case: a session that authenticated and never subscribed was closed
   by the timer. *)
C8_Witness ==
  \E c \in AllConns :
    /\ AUTH_TOKEN = SECRET
    /\ session[c].authenticated
    /\ session[c].subscriptionTimeout = "fired"
    /\ session[c].close = SubscriptionTimeoutClose
(* ------------------------------------------------------------------ *)
(* Two sessions that subscribe side by side                             *)
(* ------------------------------------------------------------------ *)
PairSessions == {1, 2}
PairFrames == {AuthFrame, SubscribeFrame, InjectingFrame, UnfilteredFrame}

InitPair == GatewayInit(PairSessions, IPs) /\ DetectorInit({}) /\ NotifierIdle /\ UiIdle

NextPair ==
  /\ \/ \E c \in PairSessions, ip \in IPs : OnConnection(c, ip)
     \/ \E c \in PairSessions, data \in PairFrames :
          obs[c].received < MaxPairMsgs /\ OnClientMessage(c, data)
     \/ \E c \in PairSessions : SubscriptionTimeout(c)
     \/ \E c \in PairSessions : OnClientClose(c)
     \/ \E c \in PairSessions : OnUpstreamOpen(c)
     \/ \E c \in PairSessions : OnUpstreamClose(c)
  /\ UNCHANGED <<detVars, ntfVars, ui>>

SpecPair == InitPair /\ [][NextPair]_vars

HasUpstreamFrame(c) == Len(upstreamOut[c]) >= 1

SameWhitelistedFields(m1, m2) ==
  /\ m1.BoundingBoxes = m2.BoundingBoxes
  /\ m1.FilterMessageTypes = m2.FilterMessageTypes

(* C5: the first frame on a session's upstream socket is the augmented
   subscription: it carries the BoundingBoxes and FilterMessageTypes of the
   message that passed validation, the server's Apikey and nothing else,
   and two sessions whose accepted messages agree on those two fields send
   the same first frame. *)
C5_AugmentedSubscriptionFirst ==
  /\ \A c \in AllConns :
       HasUpstreamFrame(c) =>
         LET first == JSONparse(upstreamOut[c][1]) IN
         /\ Parses(upstreamOut[c][1])
         /\ IsObject(first)
         /\ SameWhitelistedFields(first, obs[c].accepted)
         /\ first.Apikey = API_KEY
         /\ first.extra = Absent
         /\ first.authToken = Absent
  /\ \A c1, c2 \in AllConns :
       /\ HasUpstreamFrame(c1) /\ HasUpstreamFrame(c2)
       /\ SameWhitelistedFields(obs[c1].accepted, obs[c2].accepted)
       => upstreamOut[c1][1] = upstreamOut[c2][1]

(* C5's case: one session subscribed plainly, the other with an Apikey and
   an extra field of its own, and both upstream sockets got their first
   frame. *)
C5_Witness ==
  /\ obs[1].accepted = JSONparse(SubscribeFrame)
  /\ obs[2].accepted = JSONparse(InjectingFrame)
  /\ HasUpstreamFrame(1) /\ HasUpstreamFrame(2)
(* ------------------------------------------------------------------ *)
(* Admission: more connections than one address may hold                *)
(* ------------------------------------------------------------------ *)
AdmissionConns == 1..MaxConns

InitIP == GatewayInit(AdmissionConns, IPs) /\ DetectorInit({}) /\ NotifierIdle /\ UiIdle

NextIP ==
  /\ \/ \E c \in AdmissionConns, ip \in IPs : OnConnection(c, ip)
     \/ \E c \in AdmissionConns : SubscriptionTimeout(c)
     \/ \E c \in AdmissionConns : OnClientClose(c)
     \/ \E c \in AdmissionConns : RejectedClose(c)
  /\ UNCHANGED <<detVars, ntfVars, ui>>

SpecIP == InitIP /\ [][NextIP]_vars

(* the admitted connections of an address whose socket is in one of states *)
AdmittedFrom(ip, states) ==
  {c \in AllConns : /\ session[c].admitted
                    /\ session[c].clientIP = ip
                    /\ session[c].client \in states}

(* C1: no address has more than MAX_CONNECTIONS_PER_IP admitted
   connections whose socket is open. *)
C1_AtMostFiveOpenPerIP ==
  \A ip \in DOMAIN connectionsByIP :
    Cardinality(AdmittedFrom(ip, {"OPEN"})) <= MAX_CONNECTIONS_PER_IP

(* C2: every admitted connection releases its slot once, not more, and has
   released it when it has closed; the count of an address is the number of
   its admitted connections that have not closed (read in the code's
   favour: whose socket is still open). *)
C2_SlotReleasedExactlyOnce ==
  /\ \A c \in AllConns :
       /\ obs[c].releases <= 1
       /\ session[c].admitted /\ session[c].client = "CLOSED" => obs[c].releases = 1
  /\ \A ip \in DOMAIN connectionsByIP :
       connectionsByIP[ip] = Cardinality(AdmittedFrom(ip, {"OPEN"}))
(* ------------------------------------------------------------------ *)
(* One session whose client floods it while time passes                 *)
(* ------------------------------------------------------------------ *)
HalfWindow == RATE_WINDOW_MS \div 2

NextRate ==
  /\ \/ \E c \in Sessions, ip \in IPs : OnConnection(c, ip)
     \/ \E c \in Sessions :
          obs[c].received < MaxRateMsgs /\ OnClientMessage(c, SubscribeFrame)
     \/ now < MaxRateTicks * HalfWindow /\ Tick(HalfWindow)
  /\ UNCHANGED <<detVars, ntfVars, ui>>

SpecRate == Init /\ [][NextRate]_vars

(* C9: in every interval of 60 seconds at most MAX_MESSAGES_PER_MINUTE
   messages of a connection pass the rate check: the message that passes
   as the 61st after another one passes at least a window later. *)
C9_RollingWindowCap ==
  \A c \in AllConns :
    \A j \in 1..Len(obs[c].passed) :
      j > MAX_MESSAGES_PER_MINUTE =>
        obs[c].passed[j] - obs[c].passed[j - MAX_MESSAGES_PER_MINUTE] >= RATE_WINDOW_MS

(* ------------------------------------------------------------------ *)
(* The detector of the notifier, fed by the stream                      *)
(* ------------------------------------------------------------------ *)
MaxDetTicks == 3        \* steps of the notifier's clock

MMSIs == {366, 367}

(* on the meridian of the bridge: 1.309 NM away, just outside the
   threshold (0.504 NM), just inside it (0.498 NM), at the bridge *)
Far == BRIDGE_CENTER_LAT + 218
JustOutside == BRIDGE_CENTER_LAT + 84
JustInside == BRIDGE_CENTER_LAT + 83
AtBridge == BRIDGE_CENTER_LAT

ValidReports ==
  {PositionMessage(366, "   ", lat, BRIDGE_CENTER_LNG, 1800, 5) :
     lat \in {Far, JustOutside, JustInside}}
    \cup {PositionMessage(366, "   ", JustInside, BRIDGE_CENTER_LNG, 1800, 4),
          PositionMessage(367, " ALGOMA NIAGARA ", JustInside, BRIDGE_CENTER_LNG, 0, 5),
          PositionMessage(367, "   ", Far, BRIDGE_CENTER_LNG, 0, 5)}

InvalidReports ==
  {PositionMessage(m, " ALGOMA NIAGARA ", 0, 0, 0, 80) : m \in MMSIs}
    \cup {PositionMessage(m, " ALGOMA NIAGARA ", 900001, BRIDGE_CENTER_LNG, 0, 80) :
            m \in MMSIs}
    \cup {PositionMessage(366, " ALGOMA NIAGARA ", -900001, BRIDGE_CENTER_LNG, 0, 80),
          PositionMessage(366, " ALGOMA NIAGARA ", AtBridge, 1800001, 0, 80),
          PositionMessage(366, " ALGOMA NIAGARA ", AtBridge, -1800001, 0, 80)}

StaticReports ==
  {StaticMessage(366, " ALGOMA NIAGARA ", "DETROIT", 70, TRUE, 200, 25),
   [StaticMessage(367, "", "", 0, FALSE, 0, 0) EXCEPT !.type = "StandardClassBPositionReport"]}

DetectorMessages == ValidReports \cup InvalidReports \cup StaticReports

InitDetector ==
  GatewayInit({}, {}) /\ AUTH_TOKEN = Absent /\ DetectorInit(MMSIs) /\ NotifierIdle /\ UiIdle

NextDetector ==
  /\ \/ \E message \in DetectorMessages : processMessage(message)
     \/ cleanupStale
     \/ detNow < MaxDetTicks * STALE_TIMEOUT_MS /\ DetectorTick(STALE_TIMEOUT_MS)
  /\ UNCHANGED <<gwVars, ntfVars, ui>>

SpecDetector == InitDetector /\ [][NextDetector]_vars

(* the distance the vessel's last valid position report stored, or
   +infinity when the detector holds no Tracked Vessel record for it *)
PreviousDistance(mmsi) ==
  IF vessels[mmsi].tracked THEN lastValid[mmsi].distance ELSE Infinity

(* a Cooldown Record of the vessel younger than the cooldown window *)
YoungCooldownRecord(mmsi) ==
  notifiedVessels[mmsi] # 0 /\ detNow - notifiedVessels[mmsi] < COOLDOWN_MS

(* C10: processMessage on a valid Position Report returns a Crossing Event
   if and only if the previous distance is above the threshold, the new
   distance is at most the threshold, the speed is at least 0.5 kn and the
   vessel has no Cooldown Record younger than the cooldown window, where
   the previous distance is the one stored by the vessel's last valid
   position report, or +infinity when the vessel has no Tracked Vessel
   record. *)
C10_CrossingEventIff ==
  [][\A message \in ValidReports \cup InvalidReports :
       (/\ processMessage(message)
        /\ validPosition(message.Latitude, message.Longitude))
       => (returned'.event.fired
             <=> /\ PreviousDistance(message.MMSI) > CLOSE_APPROACH_DISTANCE_NM
                 /\ MICRO_NM_PER_LAT_UNIT * Abs(message.Latitude - BRIDGE_CENTER_LAT)
                      <= CLOSE_APPROACH_DISTANCE_NM
                 /\ message.Sog >= MIN_SOG
                 /\ ~YoungCooldownRecord(message.MMSI))]_vars

(* a vessel first seen already within the threshold and moving has fired
   on its first report *)
C10_Witness ==
  \E m \in MMSIs :
    /\ returned.call = "position"
    /\ returned.event.fired /\ returned.event.mmsi = m
    /\ lastValid[m].first
    /\ vessels[m].lastUpdate = detNow
    /\ vessels[m].distanceToBridge <= CLOSE_APPROACH_DISTANCE_NM
    /\ vessels[m].sog >= MIN_SOG
    /\ notifiedVessels[m] = detNow

(* C11: a vessel for which no event was returned yet and whose reports so
   far, if any, were beyond the threshold gets a Crossing Event at its
   first report within the threshold at 0.5 kn or more, and none while it
   is beyond it; and an event is returned for a vessel only if the last
   one returned for it is at least the cooldown window old, whatever
   oscillation, static data and sweeps came in between. *)
C11_OneEventPerCooldownWindow ==
  [][\A message \in ValidReports \cup InvalidReports :
       (/\ processMessage(message)
        /\ validPosition(message.Latitude, message.Longitude))
       => LET m == message.MMSI
              within == distanceToBridge(message.Latitude, message.Longitude)
                          <= CLOSE_APPROACH_DISTANCE_NM
          IN
          /\ returned'.event.fired =>
               /\ returned'.event.mmsi = m
               /\ lastEvent[m] = 0 \/ detNow - lastEvent[m] >= COOLDOWN_MS
          /\ (/\ lastEvent[m] = 0
              /\ lastValid[m].distance > CLOSE_APPROACH_DISTANCE_NM)
             => (returned'.event.fired <=> within /\ message.Sog >= MIN_SOG)]_vars

(* a vessel that got its event went beyond the threshold and came back
   within it, moving, while the event is younger than the cooldown
   window: nothing was returned *)
C11_Witness ==
  \E m \in MMSIs :
    /\ returned.call = "position" /\ ~returned.event.fired
    /\ vessels[m].tracked /\ vessels[m].lastUpdate = detNow
    /\ vessels[m].distanceToBridge <= CLOSE_APPROACH_DISTANCE_NM
    /\ vessels[m].sog >= MIN_SOG
    /\ lastEvent[m] = 1 /\ detNow - lastEvent[m] = STALE_TIMEOUT_MS
    /\ \A n \in MMSIs \ {m} : ~vessels[n].tracked

(* ------------------------------------------------------------------ *)
(* The stream client of the notifier: connecting, backing off, stopping *)
(* ------------------------------------------------------------------ *)
MaxConnects == 7        \* calls of connect()
MaxAcks == 1            \* acknowledgements received on one socket

Urls == {"ws://localhost:3001", "localhost:3001"}
Tokens == {Absent, SECRET}
SocketIds == 1..MaxConnects

GatewayIdle == GatewayInit({}, {}) /\ AUTH_TOKEN = Absent

InitReconnect ==
  /\ GatewayIdle /\ DetectorInit({}) /\ UiIdle
  /\ NotifierInit(Urls, Tokens, SocketIds, {})

NextReconnect ==
  /\ \/ Start
     \/ Stop
     \/ \E s \in SocketIds : OnOpen(s)
     \/ \E s \in SocketIds : OnError(s)
     \/ \E s \in SocketIds : OnClose(s)
     \/ ntfObs.connects < MaxConnects /\ ReconnectTimer
     \/ CleanupInterval
  /\ UNCHANGED <<gwVars, ui>>

SpecReconnect == InitReconnect /\ [][NextReconnect]_vars

RECURSIVE Pow2(_)
Pow2(k) == IF k = 0 THEN 1 ELSE 2 * Pow2(k - 1)

(* min(2000 * 2^(n-1), 60000) *)
BackoffDelay(n) == Min(2000 * Pow2(n - 1), 60000)

(* C13: the delay the reconnect timer was armed with at the n-th schedule
   since the last open (or since the start) is min(2000 * 2^(n-1), 60000)
   ms, the delay in force is the one of the next schedule, 2000 ms right
   after an open, and it is within [2000, 60000] in every state. *)
C13_ReconnectBackoff ==
  /\ notifier.reconnectDelay >= 2000 /\ notifier.reconnectDelay <= 60000
  /\ notifier.reconnectDelay = BackoffDelay(ntfObs.schedules + 1)
  /\ ntfObs.schedules >= 1 => ntfObs.armed = BackoffDelay(ntfObs.schedules)
  /\ notifier.reconnectTimer # 0 =>
       ntfObs.schedules >= 1 /\ notifier.reconnectTimer = ntfObs.armed

(* the seventh reconnect in a row is pending, armed with the ceiling *)
C13_Witness ==
  /\ ntfObs.schedules = 7
  /\ notifier.reconnectTimer = 60000
  /\ timers.reconnect = 1
  /\ notifier.running

(* C14: once stop() was called the notifier is not running, no reconnect
   timer and no cleanup interval is pending, its socket is closing or
   closed, and from then on no step calls connect(), creates a socket or
   arms a timer, whatever events of the sockets are still to come; a
   further stop() changes nothing. *)
C14_StopIsFinal ==
  /\ [](ntfObs.stopped =>
          /\ ~notifier.running
          /\ notifier.ws = 0 /\ notifier.reconnectTimer = 0 /\ ~notifier.cleanupTimer
          /\ timers = NoTimers
          /\ \A s \in DOMAIN sockets : sockets[s].readyState \notin {"CONNECTING", "OPEN"})
  /\ [][ntfObs.stopped =>
          /\ ntfObs'.connects = ntfObs.connects
          /\ Created(sockets') = Created(sockets)
          /\ timers' = timers
          /\ (Stop => UNCHANGED vars)]_vars

(* the notifier was stopped on its second connection or a later one, which
   had opened: the close of that socket is still to come *)
C14_Witness ==
  /\ ntfObs.stopped
  /\ \E s \in DOMAIN sockets :
       /\ s >= 2
       /\ sockets[s].readyState = "CLOSING"
       /\ sockets[s].opened /\ ~sockets[s].failed

(* timers that are pending fire *)
SpecReconnectFair ==
  SpecReconnect
    /\ WF_vars(ntfObs.connects < MaxConnects /\ ReconnectTimer /\ UNCHANGED <<gwVars, ui>>)

(* the socket of the client is connecting, open or about to report its close *)
HasSocket ==
  notifier.ws # 0 /\ sockets[notifier.ws].readyState \in {"CONNECTING", "OPEN", "CLOSING"}

(* C16: while the notifier is running its client has a socket that is
   connecting or open (or whose close event is still to come) or a pending
   reconnect timer, and a pending reconnect timer leads to the next call of
   connect() unless the notifier is stopped first. *)
C16_NeverStuckDisconnected ==
  /\ [](notifier.running => HasSocket \/ timers.reconnect > 0)
  /\ \A k \in 0..(MaxConnects - 1) :
       (notifier.running /\ timers.reconnect > 0 /\ ntfObs.connects = k)
         ~> (ntfObs.connects > k \/ ntfObs.stopped)

(* the socket of a running notifier has closed after it had opened and the
   reconnect timer is pending *)
C16_Witness ==
  /\ notifier.running /\ notifier.ws = 0
  /\ timers.reconnect = 1
  /\ \E s \in DOMAIN sockets :
       /\ sockets[s].readyState = "CLOSED" /\ sockets[s].opened
       /\ \A r \in DOMAIN sockets : r > s => sockets[r].readyState = "NONE"

(* ------------------------------------------------------------------ *)
(* The notifier on its stream: acknowledgements, AIS messages, POSTs    *)
(* ------------------------------------------------------------------ *)
MaxStreamConnects == 2  \* calls of connect()
MaxStreamTicks == 2     \* steps of the notifier's clock

StreamSockets == 1..MaxStreamConnects
StreamVessels == {366}

StreamData ==
  {AuthenticatedData, GarbageData, NullData, IncompleteData,
   AISData(PositionMessage(366, "   ", Far, BRIDGE_CENTER_LNG, 1800, 5)),
   AISData(PositionMessage(366, "   ", JustInside, BRIDGE_CENTER_LNG, 1800, 5)),
   AISData(StaticMessage(366, " ALGOMA NIAGARA ", "DETROIT", 70, TRUE, 200, 25))}

InitNotifier ==
  /\ GatewayIdle
  /\ DetectorInit(StreamVessels)
  /\ NotifierInit({"ws://localhost:3001"}, Tokens, StreamSockets, StreamVessels)
  /\ UiIdle

NextNotifier ==
  /\ \/ Start
     \/ Stop
     \/ \E s \in StreamSockets : OnOpen(s)
     \/ \E s \in StreamSockets : OnClose(s)
     \/ \E s \in StreamSockets, data \in StreamData :
          /\ data = AuthenticatedData => sockets[s].acks < MaxAcks
          /\ handleMessage(s, data)
     \/ ntfObs.connects < MaxStreamConnects /\ ReconnectTimer
     \/ CleanupInterval
     \/ /\ detNow < MaxStreamTicks * STALE_TIMEOUT_MS
        /\ DetectorTick(STALE_TIMEOUT_MS)
        /\ UNCHANGED ntfVars
  /\ UNCHANGED <<gwVars, ui>>

SpecNotifier == InitNotifier /\ [][NextNotifier]_vars

Subscriptions(frames) ==
  Cardinality({i \in 1..Len(frames) : frames[i] = subscriptionFrame})

(* C12: on every socket of the stream client nothing is sent before the
   socket has opened; with a wsAuthToken configured the first thing sent
   on an opened socket is {authToken} and the Subscription is sent only in
   answer to an acknowledgement received on that socket; with none the
   Subscription is sent on open; a received message that is no
   acknowledgement sends nothing, and an AIS message is handed to the
   detector. *)
C12_AuthenticateThenSubscribe ==
  /\ [](/\ ~ntfObs.threw
        /\ \A s \in DOMAIN sockets :
             LET sock == sockets[s] IN
             /\ ~sock.opened => sock.sent = <<>>
             /\ sock.opened => Len(sock.sent) >= 1
             /\ \A i \in 1..Len(sock.sent) :
                  sock.sent[i] \in {authTokenFrame, subscriptionFrame}
             /\ config.wsAuthToken # Absent =>
                  /\ sock.opened => sock.sent[1] = authTokenFrame
                  /\ \A i \in 2..Len(sock.sent) : sock.sent[i] = subscriptionFrame
                  /\ Subscriptions(sock.sent) <= sock.acks
             /\ config.wsAuthToken = Absent =>
                  /\ \A i \in 1..Len(sock.sent) : sock.sent[i] = subscriptionFrame
                  /\ Subscriptions(sock.sent) <= 1 + sock.acks)
  /\ [][\A s \in DOMAIN sockets, data \in StreamData \ {AuthenticatedData} :
          handleMessage(s, data) =>
            /\ sockets' = sockets
            /\ data.kind = "ais" =>
                 returned'.call =
                   (IF data.message.type = "PositionReport" THEN "position" ELSE "static")]_vars

(* with a wsAuthToken configured a socket has sent {authToken} on open and
   then, after the acknowledgement, the Subscription *)
C12_Witness ==
  /\ config.wsAuthToken = SECRET
  /\ \E s \in DOMAIN sockets :
       /\ sockets[s].readyState = "OPEN"
       /\ sockets[s].acks = 1
       /\ sockets[s].sent = <<authTokenFrame, subscriptionFrame>>

(* C15: a step of the notifier attempts a POST for a vessel exactly when
   the detector returned a Crossing Event for that vessel in it, one POST
   for one event, and the POSTs attempted for one vessel are at least the
   cooldown window apart, whatever closes and reconnects come between. *)
C15_OnePostPerEvent ==
  /\ [](\A m \in DOMAIN posts :
          \A i \in 1..Len(posts[m]) :
            i > 1 => posts[m][i] - posts[m][i - 1] >= COOLDOWN_MS)
  /\ [][\A m \in DOMAIN posts :
          IF lastEvent'[m] # lastEvent[m]
            THEN /\ returned'.event.fired /\ returned'.event.mmsi = m
                 /\ posts'[m] = Append(posts[m], returned'.event.timestamp)
            ELSE posts'[m] = posts[m]]_vars

(* a second POST for a vessel, on a later connection than the first *)
C15_Witness ==
  \E m \in DOMAIN posts :
    /\ Len(posts[m]) = 2
    /\ ntfObs.connects >= 2
    /\ returned.event.fired /\ returned.event.timestamp = posts[m][2]

(* ------------------------------------------------------------------ *)
(* Admission and validation at the gateway                              *)
(* ------------------------------------------------------------------ *)
(* C17: a connection that arrives while its IP holds 5 slots is closed
   with code 1008 at once and the count of the IP stays as it is; that
   connection is not admitted, has no subscription timer and no upstream,
   takes no message and no slot, and the close of its socket leaves the
   count as it is. *)
C17_RejectedAtTheCap ==
  /\ [](\A c \in AllConns :
          session[c].client # "NONE" /\ ~session[c].admitted =>
            /\ session[c].client \in {"CLOSING", "CLOSED"}
            /\ session[c].close = <<1008, "Too many connections from your IP">>
            /\ session[c].subscriptionTimeout = "none"
            /\ session[c].upstream = "null"
            /\ ~CanReceive(session[c])
            /\ obs[c].received = 0 /\ obs[c].releases = 0 /\ obs[c].upstreams = 0)
  /\ [][\A c \in AllConns :
          /\ \A ip \in DOMAIN connectionsByIP :
               OnConnection(c, ip) /\ connectionsByIP[ip] >= MAX_CONNECTIONS_PER_IP =>
                 /\ ~session'[c].admitted
                 /\ session'[c].client = "CLOSING"
                 /\ connectionsByIP' = connectionsByIP
          /\ RejectedClose(c) => connectionsByIP' = connectionsByIP]_vars

(* a connection was rejected at the cap and its socket has closed, the IP
   still holding its 5 slots *)
C17_Witness ==
  \E c \in AllConns :
    /\ session[c].client = "CLOSED" /\ ~session[c].admitted
    /\ connectionsByIP[session[c].clientIP] = MAX_CONNECTIONS_PER_IP
    /\ Cardinality(AdmittedFrom(session[c].clientIP, {"OPEN"})) = MAX_CONNECTIONS_PER_IP

MaxValidations == 1     \* messages of the session

ValidationBoxes ==
  {Box(0, 0, 10, 10), Box(0, 0, 10, 11), Box(10, 10, 0, 0), Box(-90, -180, -89, -80),
   Box(89, 170, 91, 180), Box(-90, -180, 90, 180), TrackingBox,
   NotPairBox, BadCornerBox, NaNBox}

BoxLists ==
  {<<>>} \cup {<<b>> : b \in ValidationBoxes}
    \cup {[i \in 1..MAX_BOUNDING_BOXES |-> TrackingBox],
          [i \in 1..(MAX_BOUNDING_BOXES + 1) |-> TrackingBox]}

BoxPairs == {<<b1, b2>> : b1 \in ValidationBoxes, b2 \in ValidationBoxes}

TypeLists ==
  {NoField, NotArray, PositionReports, Array(<<MsgTypeNum(1)>>), Array(<<MsgTypeNum(4)>>),
   Array(<<MsgTypeStr("PositionReport"), MsgTypeStr("SafetyBroadcastMessage")>>)}

ValidationFrames ==
  {Frame(Obj(Absent, Array(boxes), types, Absent, Absent)) :
     boxes \in BoxLists, types \in TypeLists}
    \cup {Frame(Obj(Absent, Array(boxes), NoField, Absent, Absent)) : boxes \in BoxPairs}

InitValidate ==
  /\ GatewayInit(Sessions, IPs) /\ AUTH_TOKEN = Absent
  /\ DetectorInit({}) /\ NotifierIdle /\ UiIdle

NextValidate ==
  /\ \/ \E c \in Sessions, ip \in IPs : OnConnection(c, ip)
     \/ \E c \in Sessions, data \in ValidationFrames :
          obs[c].received < MaxValidations /\ OnClientMessage(c, data)
     \/ \E c \in Sessions : OnUpstreamOpen(c)
  /\ UNCHANGED <<detVars, ntfVars, ui>>

SpecValidate == InitValidate /\ [][NextValidate]_vars

InRange(box) ==
  /\ box.shape = "pair"
  /\ LAT_MIN <= box.lat1 /\ box.lat1 <= LAT_MAX
  /\ LAT_MIN <= box.lat2 /\ box.lat2 <= LAT_MAX
  /\ LON_MIN <= box.lon1 /\ box.lon1 <= LON_MAX
  /\ LON_MIN <= box.lon2 /\ box.lon2 <= LON_MAX

Area(box) == Abs(box.lat2 - box.lat1) * Abs(box.lon2 - box.lon1)

SubscriptionInvariant(v) ==
  /\ IsArray(v.BoundingBoxes)
  /\ Len(v.BoundingBoxes.items) >= 1 /\ Len(v.BoundingBoxes.items) <= 5
  /\ \A i \in 1..Len(v.BoundingBoxes.items) :
       /\ InRange(v.BoundingBoxes.items[i])
       /\ Area(v.BoundingBoxes.items[i]) <= 100
  /\ v.FilterMessageTypes # NoField =>
       /\ IsArray(v.FilterMessageTypes)
       /\ \A i \in 1..Len(v.FilterMessageTypes.items) :
            \/ v.FilterMessageTypes.items[i].num \in allowedMessageTypes
            \/ v.FilterMessageTypes.items[i].str \in allowedMessageNames

(* C18: every subscription that passed validation and is sent upstream
   has between 1 and 5 bounding boxes, each with both corners within
   [-90,90] x [-180,180] and an area of at most 100, and only allowed
   filter message types. *)
C18_SubscriptionInvariant ==
  \A c \in AllConns :
    /\ session[c].subscriptionStr # NoFrame =>
         SubscriptionInvariant(JSONparse(session[c].subscriptionStr))
    /\ \A i \in 1..Len(upstreamOut[c]) :
         SubscriptionInvariant(JSONparse(upstreamOut[c][i]))

AreaTooLarge == "Bounding box area too large (max 100 sq degrees)"

(* the in-range boxes of the list whose area exceeds the cap *)
OverCap(boxes) == {i \in 1..Len(boxes) : InRange(boxes[i]) /\ Area(boxes[i]) > 100}

Acceptable(box) == InRange(box) /\ Area(box) <= 100

(* the message is validated as a subscription with a list of boxes *)
Validates(c, data) ==
  /\ OnClientMessage(c, data)
  /\ session[c].client = "OPEN"
  /\ firstMessage(session[c]) /\ ~authRequired(session[c])
  /\ checkMessageRateLimit(messageRateLimits, c, now).ok

(* C19 as stated: every subscription that contains an in-range box whose
   area exceeds the cap of 100 is rejected with the 'Bounding box area too
   large' reason. *)
C19_AreaReasonForEveryOverCapBox ==
  [][\A c \in AllConns, data \in ValidationFrames :
       Validates(c, data) /\ OverCap(JSONparse(data).BoundingBoxes.items) # {}
         => session'[c].close = <<1007, AreaTooLarge>>]_vars

(* C19, amended: a subscription that contains an in-range box whose area
   exceeds the cap of 100 is never accepted, and it is rejected with the
   'Bounding box area too large' reason when every box before the first
   such box is in range and within the cap; a subscription of 1 to 5
   boxes that are in range and within the cap, one of them with an area
   equal to the cap, is accepted when its message types are. *)
C19_AreaCapInclusive ==
  [][\A c \in AllConns, data \in ValidationFrames :
       Validates(c, data) =>
         LET boxes == JSONparse(data).BoundingBoxes.items
             types == JSONparse(data).FilterMessageTypes
             over == OverCap(boxes)
         IN
         /\ over # {} =>
              /\ session'[c].upstream = "null"
              /\ (\E j \in over : \A k \in 1..(j - 1) : Acceptable(boxes[k]))
                   => session'[c].close = <<1007, AreaTooLarge>>
         /\ (/\ Len(boxes) >= 1 /\ Len(boxes) <= 5
             /\ \A i \in 1..Len(boxes) : Acceptable(boxes[i])
             /\ \E i \in 1..Len(boxes) : Area(boxes[i]) = 100
             /\ types \in {NoField, PositionReports})
            => /\ session'[c].upstream = "CONNECTING"
               /\ session'[c].client = "OPEN"]_vars

(* a subscription whose box has an area equal to the cap was accepted *)
C19_Witness ==
  \E c \in AllConns :
    /\ session[c].upstream = "CONNECTING"
    /\ obs[c].accepted.BoundingBoxes = Array(<<Box(0, 0, 10, 10)>>)

(* C20: a first message the gateway cannot accept ends with the
   connection closed with a close code and a reason: the handler never
   ends in an unhandled exception, and a session that has received a
   message which brought neither an acknowledgement nor an upstream
   connection is closing or closed with code 1007 or 1008 and a reason. *)
C20_UnacceptableFirstMessageCloses ==
  /\ ~crashed
  /\ \A c \in AllConns :
       obs[c].received >= 1 /\ obs[c].acks = 0 /\ obs[c].upstreams = 0 =>
         /\ session[c].client \in {"CLOSING", "CLOSED"}
         /\ session[c].close[1] \in {1007, 1008}
         /\ session[c].close[2] # ""

(* ------------------------------------------------------------------ *)
(* Upstream failure                                                     *)
(* ------------------------------------------------------------------ *)
UpstreamFailed(s) == s.upstream \in {"CLOSED", "ERRORED"}

(* C21: when the upstream socket of a session closes or emits an error
   while the downstream socket is open, the gateway closes the downstream
   socket; and once the upstream socket has failed, nothing more is sent
   on either socket of that session. *)
C21_UpstreamFailureClosesDownstream ==
  [][\A c \in AllConns :
       /\ (~UpstreamFailed(session[c]) /\ UpstreamFailed(session'[c])
             /\ session[c].client = "OPEN")
            => (session'[c].client = "CLOSING" /\ session'[c].closeBy = "gateway")
       /\ UpstreamFailed(session[c])
            => (upstreamOut'[c] = upstreamOut[c] /\ clientOut'[c] = clientOut[c])]_vars

(* the upstream socket failed after a client message had been relayed, the
   gateway closed the downstream socket, and the client can still send *)
C21_Witness ==
  \E c \in AllConns :
    /\ UpstreamFailed(session[c])
    /\ Len(upstreamOut[c]) >= 2
    /\ session[c].client = "CLOSING"
    /\ session[c].closeBy = "gateway"
    /\ obs[c].received < MaxMsgs
    /\ ENABLED (\E data \in ClientFrames : OnClientMessage(c, data))

(* ------------------------------------------------------------------ *)
(* One session that relays: a client that floods, a feed that answers   *)
(* ------------------------------------------------------------------ *)
MaxVariedMsgs == 3      \* the client's first messages, which differ from each other
MaxRelayFeed == 2       \* messages the upstream feed sends on the session

BytesFrame == Binary(Frame(Bytes))
RelayFrames == {SubscribeFrame, GarbageFrame, BytesFrame}
FeedFrames == {FeedFrame, Binary(FeedFrame), BytesFrame}

InitRelay ==
  /\ GatewayInit(Sessions, IPs)
  /\ AUTH_TOKEN = Absent
  /\ DetectorInit({})
  /\ NotifierIdle /\ UiIdle

NextRelay ==
  /\ \/ \E c \in Sessions, ip \in IPs : OnConnection(c, ip)
     \/ \E c \in Sessions, data \in RelayFrames :
          /\ obs[c].received < MaxRateMsgs
          /\ obs[c].received >= MaxVariedMsgs => data = SubscribeFrame
          /\ OnClientMessage(c, data)
     \/ \E c \in Sessions : OnClientClose(c)
     \/ \E c \in Sessions : OnUpstreamOpen(c)
     \/ \E c \in Sessions, data \in FeedFrames :
          obs[c].fed < MaxRelayFeed /\ OnUpstreamMessage(c, data)
     \/ \E c \in Sessions : OnUpstreamClose(c)
  /\ UNCHANGED <<detVars, ntfVars, ui>>

SpecRelay == InitRelay /\ [][NextRelay]_vars

Relaying(s) == s.upstream # "null"
PassesRateCheck(c) == checkMessageRateLimit(messageRateLimits, c, now).ok
RateLimitClose == <<1008, "Rate limit exceeded">>

(* C22 as stated: every message that arrives from one side while the
   other side's socket is open is sent to the other side as it came, once
   and after the ones before it, and nothing else is sent on either socket
   once the session has its upstream connection.  The gateway does not do
   that: see C22_RelayedOncePayloadIntact. *)
C22_RelayedOnceUnmodified ==
  [][\A c \in AllConns :
       /\ \A data \in RelayFrames :
            OnClientMessage(c, data) /\ Relaying(session[c]) =>
              /\ upstreamOut'[c] =
                   IF session[c].upstream = "OPEN"
                     THEN Append(upstreamOut[c], data) ELSE upstreamOut[c]
              /\ clientOut'[c] = clientOut[c]
       /\ \A data \in FeedFrames :
            OnUpstreamMessage(c, data) =>
              /\ clientOut'[c] =
                   IF session[c].client = "OPEN"
                     THEN Append(clientOut[c], data) ELSE clientOut[c]
              /\ upstreamOut'[c] = upstreamOut[c]]_vars

(* C22, amended: in the relaying state a client message that passes the
   rate check while the upstream socket is open is sent upstream once,
   after the ones before it, its payload unchanged, as a binary frame; one
   that fails the rate check is not relayed and closes the downstream
   socket with 1008; a feed message that arrives while the downstream
   socket is open is sent downstream once, after the ones before it, as a
   text frame that carries the payload decoded as UTF-8; and apart from the
   augmented subscription, the first frame upstream, the gateway sends
   nothing else on either socket. *)
C22_RelayedOncePayloadIntact ==
  [][\A c \in AllConns :
       /\ \A data \in RelayFrames :
            OnClientMessage(c, data) /\ Relaying(session[c]) =>
              /\ upstreamOut'[c] =
                   IF session[c].upstream = "OPEN" /\ PassesRateCheck(c)
                     THEN Append(upstreamOut[c], Binary(data)) ELSE upstreamOut[c]
              /\ clientOut'[c] = clientOut[c]
              /\ ~PassesRateCheck(c) /\ session[c].client = "OPEN" =>
                   session'[c].client = "CLOSING" /\ session'[c].close = RateLimitClose
       /\ \A data \in FeedFrames :
            OnUpstreamMessage(c, data) =>
              /\ clientOut'[c] =
                   IF session[c].client = "OPEN"
                     THEN Append(clientOut[c], Frame(toString(data))) ELSE clientOut[c]
              /\ upstreamOut'[c] = upstreamOut[c]
       /\ upstreamOut'[c] # upstreamOut[c] =>
            \/ \E data \in RelayFrames : OnClientMessage(c, data) /\ Relaying(session[c])
            \/ OnUpstreamOpen(c) /\ upstreamOut[c] = <<>>
                 /\ upstreamOut'[c] = <<session[c].subscriptionStr>>
       /\ Relaying(session[c]) /\ clientOut'[c] # clientOut[c] =>
            \E data \in FeedFrames : OnUpstreamMessage(c, data)]_vars

(* two different client messages went upstream in the order they came, two
   different feed messages went downstream, one of them sent as binary,
   and the flood then ran into the rate check *)
C22_Witness ==
  \E c \in AllConns :
    /\ Len(upstreamOut[c]) = MAX_MESSAGES_PER_MINUTE
    /\ upstreamOut[c][2] = Binary(GarbageFrame)
    /\ upstreamOut[c][3] = BytesFrame
    /\ clientOut[c] = <<FeedFrame, Frame(Garbage)>>
    /\ session[c].close = RateLimitClose

(* ------------------------------------------------------------------ *)
(* Two sessions and a signal                                            *)
(* ------------------------------------------------------------------ *)
Signals == {"SIGINT", "SIGTERM"}

NextShutdown ==
  /\ \/ \E c \in PairSessions, ip \in IPs : OnConnection(c, ip)
     \/ \E c \in PairSessions, data \in PairFrames :
          obs[c].received < MaxPairMsgs /\ OnClientMessage(c, data)
     \/ \E c \in PairSessions : SubscriptionTimeout(c)
     \/ \E c \in PairSessions : OnClientClose(c)
     \/ \E c \in PairSessions : OnUpstreamOpen(c)
     \/ \E c \in PairSessions : OnUpstreamClose(c)
     \/ \E sig \in Signals : OnSignal(sig)
  /\ UNCHANGED <<detVars, ntfVars, ui>>

SpecShutdown == InitPair /\ [][NextShutdown]_vars

(* C23: when an interrupt or terminate signal ends the gateway process, no
   subscription timer is left pending and no downstream or upstream socket
   is left open or connecting: the process has cancelled and closed them
   before it exits. *)
C23_ShutdownDrains ==
  [][\A sig \in Signals :
       OnSignal(sig) =>
         \A c \in AllConns :
           /\ session'[c].subscriptionTimeout # "armed"
           /\ session'[c].client # "OPEN"
           /\ session'[c].upstream \notin {"CONNECTING", "OPEN"}]_vars

(* ------------------------------------------------------------------ *)
(* The detector: speed, static data, invalid positions, the sweep       *)
(* ------------------------------------------------------------------ *)
(* C24: a Position Report with a speed below 0.5 kn returns no Crossing
   Event, whatever the distance it comes from, the distance it reports and
   the vessel's Cooldown Record; a report at exactly 0.5 kn that comes in
   from beyond the threshold with no young Cooldown Record returns one. *)
C24_NoEventBelowMinSpeed ==
  [][\A message \in ValidReports \cup InvalidReports :
       processMessage(message) =>
         /\ message.Sog < MIN_SOG => ~returned'.event.fired
         /\ (/\ message.Sog = MIN_SOG
             /\ validPosition(message.Latitude, message.Longitude)
             /\ PreviousDistance(message.MMSI) > CLOSE_APPROACH_DISTANCE_NM
             /\ distanceToBridge(message.Latitude, message.Longitude)
                  <= CLOSE_APPROACH_DISTANCE_NM
             /\ ~YoungCooldownRecord(message.MMSI))
            => returned'.event.fired]_vars

(* a vessel never notified came from beyond the threshold to within it at
   0.4 kn, and nothing was returned *)
C24_Witness ==
  \E m \in MMSIs :
    /\ returned.call = "position" /\ ~returned.event.fired
    /\ vessels[m].tracked /\ vessels[m].lastUpdate = detNow
    /\ vessels[m].sog < MIN_SOG
    /\ vessels[m].distanceToBridge <= CLOSE_APPROACH_DISTANCE_NM
    /\ lastValid[m].first
    /\ notifiedVessels[m] = 0 /\ lastEvent[m] = 0
    /\ \A n \in MMSIs \ {m} : ~vessels[n].tracked /\ lastValid[n].distance = Infinity

IsStaticData(message) == message.type = "ShipStaticData"

(* C25: a Static Data message for a vessel without a Tracked Vessel record
   leaves the tracked-vessel map and the cooldown map as they were; no
   Static Data message returns a Crossing Event or touches the cooldown
   map; and a record comes into being only by a valid Position Report of
   that vessel. *)
C25_StaticDataNeverCreates ==
  [][/\ \A message \in StaticReports :
          processMessage(message) /\ IsStaticData(message) =>
            /\ ~returned'.event.fired
            /\ notifiedVessels' = notifiedVessels
            /\ ~vessels[message.MMSI].tracked => vessels' = vessels
     /\ \A m \in MMSIs :
          ~vessels[m].tracked /\ vessels'[m].tracked =>
            \E message \in ValidReports :
              /\ message.MMSI = m
              /\ validPosition(message.Latitude, message.Longitude)
              /\ processMessage(message)]_vars

(* static data came for a vessel never seen, while another vessel is
   tracked: the first has no record *)
C25_Witness ==
  \E m \in MMSIs :
    /\ returned.call = "static"
    /\ ~vessels[m].tracked /\ lastValid[m].distance = Infinity
    /\ \E message \in StaticReports : IsStaticData(message) /\ message.MMSI = m
    /\ \E n \in MMSIs \ {m} : vessels[n].tracked

(* the positions the detector is to reject, in 1/10000 degree *)
SentinelOrOutOfRange(lat, lon) ==
  \/ lat = 0 /\ lon = 0
  \/ lat < -90 * 10000 \/ lat > 90 * 10000
  \/ lon < -180 * 10000 \/ lon > 180 * 10000

(* C26: a Position Report at (0, 0), or with a latitude outside [-90, 90]
   or a longitude outside [-180, 180], returns no event and leaves the
   tracked-vessel map and the cooldown map as they were, for a vessel that
   has a record (its distance and lastUpdate stay) and for one that has
   none. *)
C26_InvalidPositionIgnored ==
  [][\A message \in ValidReports \cup InvalidReports :
       (/\ processMessage(message)
        /\ SentinelOrOutOfRange(message.Latitude, message.Longitude))
       => /\ ~returned'.event.fired
          /\ vessels' = vessels
          /\ notifiedVessels' = notifiedVessels]_vars

(* the last call was a Position Report that stored nothing, later than
   the last update of a tracked vessel, and with a vessel never seen *)
C26_Witness ==
  /\ returned.call = "position" /\ ~returned.event.fired
  /\ \A m \in MMSIs : vessels[m].tracked => vessels[m].lastUpdate < detNow
  /\ \E m \in MMSIs : vessels[m].tracked
  /\ \E m \in MMSIs : ~vessels[m].tracked /\ lastValid[m].distance = Infinity

(* a step of the sweep: the only call that leaves a "cleanup" result *)
Swept == returned'.call = "cleanup" /\ detNow' = detNow

StaleVessel(m) ==
  vessels[m].tracked /\ detNow - vessels[m].lastUpdate > 15 * 60 * 1000
OldCooldownRecord(m) ==
  notifiedVessels[m] # 0 /\ detNow - notifiedVessels[m] > 30 * 60 * 1000

(* C27: cleanupStale removes the Tracked Vessels not updated for more than
   the stale timeout and the Cooldown Records older than the cooldown
   window, those and no others, changes no record it keeps, and returns
   the number of Tracked Vessels it removed. *)
C27_SweepRemovesExactlyTheStale ==
  [][Swept =>
       /\ \A m \in MMSIs :
            /\ vessels'[m] = IF StaleVessel(m) THEN NoVessel ELSE vessels[m]
            /\ notifiedVessels'[m] = IF OldCooldownRecord(m) THEN 0 ELSE notifiedVessels[m]
       /\ returned'.removed = Cardinality({m \in MMSIs : StaleVessel(m)})
       /\ ~returned'.event.fired]_vars

(* a sweep removed one vessel and kept the other; the removed vessel's
   Cooldown Record is gone too, and was not counted *)
C27_Witness ==
  \E m \in MMSIs :
    /\ returned.call = "cleanup" /\ returned.removed = 1
    /\ ~vessels[m].tracked /\ lastEvent[m] # 0 /\ notifiedVessels[m] = 0
    /\ \E n \in MMSIs \ {m} : vessels[n].tracked /\ detNow - vessels[n].lastUpdate = STALE_TIMEOUT_MS

(* ------------------------------------------------------------------ *)
(* The direction of a crossing                                          *)
(* ------------------------------------------------------------------ *)
MaxDirectionTicks == 2  \* steps of the notifier's clock, a cooldown window in all

(* courses in tenths of a degree: around each limit of the two sectors,
   negative, and of a full turn or more *)
Courses ==
  {0, 449, 450, 451, 1349, 1350, 1351, 1800, 2249, 2250, 2251, 3149, 3150, 3151,
   3599, 3600, 3700, 4050, 5400, -100, -450, -451, -1350, -1800, -3600, -4050}

JustInsideSouth == BRIDGE_CENTER_LAT - 83

DirectionReports ==
  {PositionMessage(366, "", lat, BRIDGE_CENTER_LNG, cog, MIN_SOG) :
     lat \in {JustInside, AtBridge, JustInsideSouth}, cog \in Courses}
    \cup {PositionMessage(366, "", Far, BRIDGE_CENTER_LNG, 0, MIN_SOG)}

InitDirection ==
  GatewayInit({}, {}) /\ AUTH_TOKEN = Absent /\ DetectorInit({366}) /\ NotifierIdle /\ UiIdle

NextDirection ==
  /\ \/ \E message \in DirectionReports : processMessage(message)
     \/ cleanupStale
     \/ detNow < MaxDirectionTicks * STALE_TIMEOUT_MS /\ DetectorTick(STALE_TIMEOUT_MS)
  /\ UNCHANGED <<gwVars, ntfVars, ui>>

SpecDirection == InitDirection /\ [][NextDirection]_vars

(* the direction of a course in tenths of a degree at a latitude in
   1/10000 degree, with the heading the course modulo a full turn *)
DirectionReference(cog, lat) ==
  LET h == cog % (360 * 10) IN
  IF h > 315 * 10 \/ h < 45 * 10 THEN "northbound"
  ELSE IF 135 * 10 < h /\ h < 225 * 10 THEN "southbound"
  ELSE IF lat > BRIDGE_CENTER_LAT THEN "southbound"
  ELSE "northbound"

(* C28: the direction of a Crossing Event is the reference direction of the
   report's course and latitude: northbound for a heading above 315 or
   below 45, southbound for one between 135 and 225, and by the side of
   the bridge the vessel is on otherwise, the headings 45, 135, 225 and 315
   included, for negative courses and courses of 360 and more as well. *)
C28_DirectionMatchesReference ==
  [][\A message \in DirectionReports :
       processMessage(message) /\ returned'.event.fired =>
         returned'.event.direction = DirectionReference(message.Cog, message.Latitude)]_vars

(* a vessel north of the bridge crossed on a course of -45 degrees, which
   is the heading 315: the latitude decided, southbound *)
C28_Witness ==
  /\ returned.call = "position" /\ returned.event.fired
  /\ returned.event.course = -450
  /\ vessels[366].latitude > BRIDGE_CENTER_LAT
  /\ returned.event.direction = "southbound"

(* the name a record gets from the metadata of the report that creates it *)
MetadataName(message) ==
  IF Trim(message.ShipName) # "" THEN Trim(message.ShipName)
  ELSE "MMSI " \o ToString(message.MMSI)

(* C29: a valid Position Report stores its position, course, speed,
   distance and time in the vessel's record and changes no other vessel;
   for a vessel that has a record, name, destination, type and length stay
   as they are; for a vessel that has none, the name is the trimmed
   metadata name, or "MMSI n" when that is blank, and destination, type
   and length are unset. *)
C29_UpsertKeepsStaticFields ==
  [][\A message \in ValidReports \cup InvalidReports :
       (/\ processMessage(message)
        /\ validPosition(message.Latitude, message.Longitude))
       => LET m == message.MMSI
              old == vessels[m]
              new == vessels'[m]
          IN
          /\ new.tracked /\ new.mmsi = m
          /\ new.latitude = message.Latitude /\ new.longitude = message.Longitude
          /\ new.cog = message.Cog /\ new.sog = message.Sog
          /\ new.distanceToBridge = distanceToBridge(message.Latitude, message.Longitude)
          /\ new.lastUpdate = detNow
          /\ new.name = IF old.tracked THEN old.name ELSE MetadataName(message)
          /\ new.destination = IF old.tracked THEN old.destination ELSE Absent
          /\ new.shipType = IF old.tracked THEN old.shipType ELSE 0
          /\ new.length = IF old.tracked THEN old.length ELSE -1
          /\ \A n \in MMSIs \ {m} : vessels'[n] = vessels[n]]_vars

(* a vessel first reported without a name was stored as "MMSI 367", and a
   later report that carries a name, within the threshold, left it so;
   the other vessel keeps what its static data gave it *)
C29_Witness ==
  /\ returned.call = "position"
  /\ vessels[367].tracked /\ vessels[367].name = "MMSI 367"
  /\ vessels[367].latitude = JustInside /\ vessels[367].lastUpdate = detNow
  /\ vessels[366].tracked /\ vessels[366].name = "ALGOMA NIAGARA"
  /\ vessels[366].destination = "DETROIT"
  /\ lastValid[366].first = FALSE

(* ------------------------------------------------------------------ *)
(* The notification sink                                                *)
(* ------------------------------------------------------------------ *)
Outcomes ==
  {Response(200), Response(204), Response(299), Response(300), Response(404),
   Response(500), NetworkError}

SinkData ==
  {AISData(PositionMessage(366, "   ", Far, BRIDGE_CENTER_LNG, 1800, 5)),
   AISData(PositionMessage(366, "   ", JustInside, BRIDGE_CENTER_LNG, 1800, 5))}

InitSink == InitNotifier /\ config.wsAuthToken = Absent

NextSink ==
  /\ \/ Start
     \/ \E s \in StreamSockets : OnOpen(s)
     \/ \E s \in StreamSockets, data \in SinkData : handleMessage(s, data)
     \/ \E outcome \in Outcomes : FetchSettles(outcome)
     \/ /\ detNow < MaxStreamTicks * STALE_TIMEOUT_MS
        /\ DetectorTick(STALE_TIMEOUT_MS)
        /\ UNCHANGED ntfVars
  /\ UNCHANGED <<gwVars, ui>>

SpecSink == InitSink /\ [][NextSink]_vars

Is2xx(outcome) ==
  outcome.kind = "response" /\ outcome.status \in 200..299

(* C30: every send makes one POST and its promise settles once: it
   resolves to true when the sink answered with a 2xx status and to false
   for any other status and for a network error, and is never rejected;
   the settling changes neither the detector nor the POSTs made, so the
   Cooldown Record of the event stays also when the send failed. *)
C30_SendResolvesToSinkOutcome ==
  /\ [](/\ Len(ntfObs.settled) <= Cardinality(Posted)
        /\ \A i \in 1..Len(ntfObs.settled) :
             /\ ~ntfObs.settled[i].rejected
             /\ ntfObs.settled[i].resolved <=> Is2xx(ntfObs.settled[i].outcome))
  /\ [][ntfObs'.settled # ntfObs.settled =>
          /\ Len(ntfObs'.settled) = Len(ntfObs.settled) + 1
          /\ posts' = posts
          /\ vessels' = vessels
          /\ notifiedVessels' = notifiedVessels]_vars

(* the POST for a crossing got a 500 and the one a cooldown window later a
   network error: both sends resolved to false, and the vessel's Cooldown
   Record is the one of the second event *)
C30_Witness ==
  /\ Len(posts[366]) = 2
  /\ Len(ntfObs.settled) = 2
  /\ ntfObs.settled[1].outcome = Response(500) /\ ~ntfObs.settled[1].resolved
  /\ ntfObs.settled[2].outcome = NetworkError /\ ~ntfObs.settled[2].resolved
  /\ notifiedVessels[366] = posts[366][2]


(* ------------------------------------------------------------------ *)
(* The two stream clients and their connections                        *)
(* ------------------------------------------------------------------ *)
MaxClientConnects == 2   \* sockets each client may create

ClientSockets == 1..MaxClientConnects

InitClients ==
  /\ GatewayIdle /\ DetectorInit({})
  /\ NotifierInit({"ws://localhost:3001"}, Tokens, ClientSockets, {})
  /\ ui \in {NoUi(token, ClientSockets, {}, 0) : token \in Tokens}

NextClients ==
  \/ /\ \/ Start
        \/ Stop
        \/ \E s \in ClientSockets : OnOpen(s)
        \/ \E s \in ClientSockets : OnError(s)
        \/ \E s \in ClientSockets : OnClose(s)
        \/ ntfObs.connects < MaxClientConnects /\ ReconnectTimer
        \/ CleanupInterval
     /\ UNCHANGED <<gwVars, ui>>
  \/ UiMount
  \/ \E s \in ClientSockets, readyState \in {"OPEN", "CLOSING"} :
       UiOnOpen(s, readyState)
  \/ \E s \in ClientSockets : UiOnError(s)
  \/ \E s \in ClientSockets : UiOnClose(s)
  \/ ui.connects < MaxClientConnects /\ UiReconnectTimer
  \/ UiCleanup

SpecClients == InitClients /\ [][NextClients]_vars

(* no socket of the map is connecting or open *)
NoneLive(ss) ==
  \A s \in DOMAIN ss : ss[s].readyState \notin {"CONNECTING", "OPEN"}

(* nothing is sent on any socket of the map in this step *)
NothingSent(ss, tt) == \A s \in DOMAIN ss : tt[s].sent = ss[s].sent

(* C31: once the cleanup of the UI hook has run, or stop() of the notifier
   was called, no socket of that client is connecting or open after any
   event, the open event included; no step sends anything on any of its
   sockets, and none becomes the active connection: the hook's status and
   socket reference stay as they are, the notifier's socket stays null. *)
C31_LateOpenIsClosedUnused ==
  /\ [](ui.isCleanedUp => NoneLive(ui.sockets))
  /\ [](ntfObs.stopped => NoneLive(sockets) /\ notifier.ws = 0)
  /\ [][ui.isCleanedUp =>
          /\ NothingSent(ui.sockets, ui'.sockets)
          /\ ui'.connectionStatus = ui.connectionStatus
          /\ ui'.wsRef = ui.wsRef
          /\ ~ui'.threw]_vars
  /\ [][ntfObs.stopped =>
          /\ NothingSent(sockets, sockets')
          /\ ~ntfObs'.threw]_vars

(* the open event of a socket of the hook was delivered after the cleanup:
   the socket opened, nothing was ever sent on it, and it is closing *)
C31_Witness ==
  /\ ui.isCleanedUp
  /\ ui.connectionStatus = "connecting"
  /\ \E s \in DOMAIN ui.sockets :
       /\ ui.sockets[s].opened
       /\ ui.sockets[s].sent = <<>>
       /\ ui.sockets[s].readyState = "CLOSING"
  /\ ntfObs.stopped
  /\ \E s \in DOMAIN sockets : sockets[s].readyState = "CLOSING"


(* ------------------------------------------------------------------ *)
(* The UI hook on one connection, with the messages it may receive      *)
(* ------------------------------------------------------------------ *)
MaxUiMsgs == 4           \* messages the hook handles
MaxUiTicks == 3          \* advances of the browser's clock

UiStart == 1000          \* the browser's clock when the page loads, seconds
UiStep == 300            \* one advance of the clock, seconds

UiSockets == {1}
UiVessels == {366, 367}

UiTimes ==
  {Raw("iso", UiStart), Raw("iso", UiStart - 700), Raw("compact", UiStart),
   Raw("digits", 0), Raw("junk", 0), Raw("missing", 0)}

UiMessages ==
  {UiData("authenticated", 0, Raw("missing", 0), ""),
   UiData("malformed", 0, Raw("missing", 0), "")}
    \cup {UiData("position", m, t, "") : m \in UiVessels, t \in UiTimes}
    \cup {UiData("static", m, Raw("missing", 0), "SARNIA") : m \in UiVessels}

InitUi ==
  /\ GatewayIdle /\ DetectorInit({}) /\ NotifierIdle
  /\ ui = NoUi(Absent, UiSockets, UiVessels, UiStart)

NextUi ==
  \/ UiMount
  \/ \E s \in UiSockets : UiOnOpen(s, "OPEN")
  \/ \E s \in UiSockets, data \in UiMessages :
       ui.messages < MaxUiMsgs /\ UiOnMessage(s, data)
  \/ \E s \in UiSockets : UiOnClose(s)
  \/ UiCleanup
  \/ ui.now < UiStart + MaxUiTicks * UiStep /\ UiTick(UiStep)

SpecUi == InitUi /\ [][NextUi]_vars

(* this step handles a position report whose time_utc is of one of the kinds *)
HandlesReportTimed(kinds) ==
  /\ ui'.messages = ui.messages + 1
  /\ ui'.last.kind = "position"
  /\ ui'.last.time.kind \in kinds

(* the step leaves the hook's connection as it was and throws nothing *)
ConnectionUntouched ==
  /\ ui'.sockets = ui.sockets
  /\ ui'.connectionStatus = ui.connectionStatus
  /\ ui'.wsRef = ui.wsRef /\ ui'.timer = ui.timer
  /\ ~ui'.threw

(* the statement as claimed: every position report whose timestamp cannot
   be parsed is recorded with the epoch timestamp and purged in the step *)
C32_UnparseableRecordedAsEpoch ==
  [][HandlesReportTimed({"junk", "digits", "missing"}) =>
       /\ ui'.last.lastUpdate = Time(0)
       /\ ~ui'.ships[ui'.last.mmsi].present
       /\ ConnectionUntouched]_vars

(* C32: a position report whose time_utc has fewer than 14 digits and is
   no date is recorded with the epoch timestamp; one with 14 digits that
   are no date is recorded with a string no Date can read; either way the
   ship is removed by the purge of the same step.  A report without a
   time_utc string records nothing and leaves the map as it was.  So no
   ship of the map ever has an unreadable or epoch timestamp, and handling
   such a report throws nothing and leaves the connection as it was. *)
C32_UnparseableNeverKept ==
  /\ [](\A m \in DOMAIN ui.ships :
          ui.ships[m].present =>
            ui.ships[m].lastUpdate.kind = "time" /\ ui.ships[m].lastUpdate.t > 0)
  /\ [][HandlesReportTimed({"junk"}) =>
          /\ ui'.last.lastUpdate = Time(0)
          /\ ~ui'.ships[ui'.last.mmsi].present
          /\ ConnectionUntouched]_vars
  /\ [][HandlesReportTimed({"digits"}) =>
          /\ ui'.last.lastUpdate = InvalidDate
          /\ ~ui'.ships[ui'.last.mmsi].present
          /\ ConnectionUntouched]_vars
  /\ [][HandlesReportTimed({"missing"}) =>
          /\ ui'.last.lastUpdate = NotDispatched
          /\ ui'.ships = ui.ships
          /\ ConnectionUntouched]_vars

(* a ship that was on the map has just reported a time_utc that is no date:
   it was recorded with the epoch and is gone, the other ship is still
   there and the connection is open *)
C32_Witness ==
  /\ ui.last.kind = "position" /\ ui.last.mmsi = 366
  /\ ui.last.time.kind = "junk"
  /\ ui.last.lastUpdate = Time(0)
  /\ ~ui.ships[366].present
  /\ ui.ships[367].present
  /\ ui.messages >= 3
  /\ ui.sockets[1].readyState = "OPEN"
  /\ ui.connectionStatus = "connected"


(* the gateway has closed the session for what the client did or did not
   send (codes 1007 and 1008) and the close event is still to come *)
ClosedByGateway(s) ==
  /\ s.client = "CLOSING" /\ s.closeBy = "gateway"
  /\ s.close[1] \in {1007, 1008}

(* C33: once the gateway has closed a session with 1007 or 1008, no step
   before the close event sends an acknowledgement on it, sets its
   authenticated flag or opens an upstream connection for it. *)
C33_NoProgressAfterGatewayClose ==
  [][\A c \in Sessions :
       ClosedByGateway(session[c]) =>
         /\ clientOut'[c] = clientOut[c]
         /\ session'[c].authenticated = session[c].authenticated
         /\ obs'[c].upstreams = obs[c].upstreams
         /\ session'[c].upstream = session[c].upstream]_vars


(* ------------------------------------------------------------------ *)
(* The notifier as a class: start() may follow stop()                   *)
(* ------------------------------------------------------------------ *)
MaxRestartConnects == 4  \* calls of connect()

RestartSockets == 1..MaxRestartConnects

(* notifier.start(), whatever was called before *)
StartAgain ==
  /\ SetProcess(start(Cur))
  /\ UNCHANGED <<config, posts, detVars>>

InitRestart ==
  /\ GatewayIdle /\ DetectorInit({}) /\ UiIdle
  /\ NotifierInit({"ws://localhost:3001"}, Tokens, RestartSockets, {})

NextRestart ==
  /\ \/ ntfObs.connects < MaxRestartConnects /\ StartAgain
     \/ Stop
     \/ \E s \in RestartSockets : OnOpen(s)
     \/ \E s \in RestartSockets : OnError(s)
     \/ \E s \in RestartSockets : OnClose(s)
     \/ ntfObs.connects < MaxRestartConnects /\ ReconnectTimer
     \/ CleanupInterval
  /\ UNCHANGED <<gwVars, ui>>

SpecRestart == InitRestart /\ [][NextRestart]_vars

(* the sockets of the notifier that are connecting or open *)
LiveSockets == {s \in DOMAIN sockets : sockets[s].readyState \in {"CONNECTING", "OPEN"}}

(* C34: the notifier has at most one connecting or open socket, at most
   one pending reconnect timer and at most one cleanup interval in every
   state, also when start() follows stop() before the close event of the
   old socket; start() on a running notifier changes nothing. *)
C34_OneSocketOneTimer ==
  /\ [](/\ Cardinality(LiveSockets) <= 1
        /\ timers.reconnect <= 1
        /\ timers.cleanup <= 1)
  /\ [][notifier.running /\ StartAgain => UNCHANGED vars]_vars


(* ------------------------------------------------------------------ *)
(* The detector fed with vessels that stay within the threshold         *)
(* ------------------------------------------------------------------ *)
WithinReports ==
  {PositionMessage(366, "   ", JustInside, BRIDGE_CENTER_LNG, 1800, sog) : sog \in {4, 5}}
    \cup {PositionMessage(367, " ALGOMA NIAGARA ", AtBridge, BRIDGE_CENTER_LNG, 0, 5)}

NextWithin ==
  /\ \/ \E message \in WithinReports \cup StaticReports : processMessage(message)
     \/ cleanupStale
     \/ detNow < MaxDetTicks * STALE_TIMEOUT_MS /\ DetectorTick(STALE_TIMEOUT_MS)
  /\ UNCHANGED <<gwVars, ntfVars, ui>>

SpecWithin == InitDetector /\ [][NextWithin]_vars

(* C35: when every position report of a vessel is within the threshold, a
   report returns a Crossing Event only if no event was returned for the
   vessel before, whatever time has passed and whatever sweeps have run. *)
C35_OneEventWhileWithin ==
  [][\A message \in WithinReports :
       processMessage(message) /\ returned'.event.fired
         => lastEvent[message.MMSI] = 0]_vars


(* the position report is within the threshold *)
Within(message) ==
  distanceToBridge(message.Latitude, message.Longitude) <= CLOSE_APPROACH_DISTANCE_NM

(* the statement as claimed: a vessel whose crossing was filtered by the
   speed test (its last reported distance is within the threshold and no
   event was ever returned for it) gets no event from a further report
   within the threshold *)
C36_LostUntilAboveThreshold ==
  [][\A message \in ValidReports :
       LET m == message.MMSI IN
       (/\ processMessage(message)
        /\ lastEvent[m] = 0
        /\ lastValid[m].distance <= CLOSE_APPROACH_DISTANCE_NM
        /\ Within(message))
       => ~returned'.event.fired]_vars

(* C36: every valid position report stores its distance, and one that
   returns no event leaves the vessel's Cooldown Record as it was.  While
   the vessel's record exists and holds a distance within the threshold, a
   report within the threshold returns no event, whatever its speed and
   whatever the age of the Cooldown Record: a crossing that was filtered
   or suppressed is not made up for, until the vessel has reported a
   distance above the threshold or its record was removed by the sweep. *)
C36_LostUntilAboveOrEvicted ==
  [][\A message \in ValidReports :
       LET m == message.MMSI IN
       processMessage(message) =>
         /\ vessels'[m].tracked
         /\ vessels'[m].distanceToBridge =
              distanceToBridge(message.Latitude, message.Longitude)
         /\ ~returned'.event.fired => notifiedVessels'[m] = notifiedVessels[m]
         /\ (/\ vessels[m].tracked
             /\ vessels[m].distanceToBridge <= CLOSE_APPROACH_DISTANCE_NM
             /\ Within(message))
            => ~returned'.event.fired]_vars

(* vessel 366 came within the threshold too slowly, later reported again
   within it at 0.5 kn with no Cooldown Record, and got no event *)
C36_Witness ==
  /\ returned.call = "position" /\ ~returned.event.fired
  /\ vessels[366].tracked
  /\ vessels[366].sog >= MIN_SOG
  /\ vessels[366].distanceToBridge <= CLOSE_APPROACH_DISTANCE_NM
  /\ ~lastValid[366].first
  /\ lastEvent[366] = 0 /\ notifiedVessels[366] = 0
  /\ detNow > COOLDOWN_MS


(* the fields of a Tracked Vessel that its position reports write *)
PositionFields(v) ==
  <<v.tracked, v.mmsi, v.latitude, v.longitude, v.cog, v.sog,
    v.distanceToBridge, v.lastUpdate>>

(* C37: a Static Data message for a tracked vessel leaves the vessel's
   position, course, speed, distance and lastUpdate, every other vessel and
   every Cooldown Record as they were and returns no event: the vessel is
   stale after it exactly if it was before, and the previous distance its
   next position report is tested against is the same. *)
C37_StaticDataKeepsPositionFields ==
  [][\A message \in StaticReports :
       LET m == message.MMSI IN
       (processMessage(message) /\ IsStaticData(message) /\ vessels[m].tracked)
       => /\ PositionFields(vessels'[m]) = PositionFields(vessels[m])
          /\ \A other \in MMSIs \ {m} : vessels'[other] = vessels[other]
          /\ notifiedVessels' = notifiedVessels
          /\ ~returned'.event.fired
          /\ previousDistance(vessels'[m]) = previousDistance(vessels[m])
          /\ (detNow - vessels'[m].lastUpdate > STALE_TIMEOUT_MS)
               <=> (detNow - vessels[m].lastUpdate > STALE_TIMEOUT_MS)]_vars

(* static data has just filled in the destination and length of a vessel
   that is within the threshold and whose last position report is more
   than the stale timeout old *)
C37_Witness ==
  /\ returned.call = "static"
  /\ vessels[366].tracked
  /\ vessels[366].destination = "DETROIT" /\ vessels[366].length = 225
  /\ vessels[366].distanceToBridge <= CLOSE_APPROACH_DISTANCE_NM
  /\ detNow - vessels[366].lastUpdate > STALE_TIMEOUT_MS


(* ------------------------------------------------------------------ *)
(* The notifier connected to the gateway                                *)
(* ------------------------------------------------------------------ *)
(* Socket s of the notifier is session s of the gateway.  What the
   notifier sent on the socket reaches the session in order, and the
   acknowledgements of the session reach the socket. *)
MaxSystemConnects == 2   \* calls of connect()

SystemConns == 1..MaxSystemConnects

(* the two processes, each configured with a secret or with none *)
InitPairing ==
  /\ GatewayInit(SystemConns, IPs)
  /\ DetectorInit({})
  /\ NotifierInit({"ws://localhost:3001"}, Tokens, SystemConns, {})
  /\ UiIdle

(* both sides configured with the same secret, or both with none *)
InitSystem == InitPairing /\ config.wsAuthToken = AUTH_TOKEN

(* the gateway accepts the connection the notifier is making *)
Accept(c) ==
  /\ sockets[c].readyState = "CONNECTING"
  /\ \E ip \in IPs : OnConnection(c, ip)
  /\ UNCHANGED <<detVars, ntfVars>>

(* the notifier learns that the gateway has accepted *)
Opened(s) ==
  /\ session[s].admitted
  /\ OnOpen(s)
  /\ UNCHANGED gwVars

(* the next frame the notifier sent reaches the gateway *)
ToGateway(c) ==
  /\ obs[c].received < Len(sockets[c].sent)
  /\ OnClientMessage(c, sockets[c].sent[obs[c].received + 1])
  /\ UNCHANGED <<detVars, ntfVars>>

(* the next acknowledgement of the gateway reaches the notifier *)
ToNotifier(s) ==
  /\ sockets[s].acks < Len(clientOut[s])
  /\ handleMessage(s, AuthenticatedData)
  /\ UNCHANGED gwVars

(* the close frame of the notifier reaches the gateway, after all it sent *)
PeerCloses(c) ==
  /\ sockets[c].readyState \in {"CLOSING", "CLOSED"}
  /\ obs[c].received = Len(sockets[c].sent)
  /\ ClientCloseFrame(c)
  /\ UNCHANGED <<detVars, ntfVars>>

(* the close of the gateway reaches the notifier *)
GatewayCloses(s) ==
  /\ session[s].client \in {"CLOSING", "CLOSED"}
  /\ OnClose(s)
  /\ UNCHANGED gwVars

(* the close handshake completes at the gateway *)
Closed(c) ==
  /\ session[c].client = "CLOSING"
  /\ OnClientClose(c)
  /\ UNCHANGED <<detVars, ntfVars>>

NextSystem ==
  /\ \/ Start /\ UNCHANGED gwVars
     \/ Stop /\ UNCHANGED gwVars
     \/ ntfObs.connects < MaxSystemConnects /\ ReconnectTimer /\ UNCHANGED gwVars
     \/ \E c \in SystemConns : Accept(c)
     \/ \E c \in SystemConns : Opened(c)
     \/ \E c \in SystemConns : ToGateway(c)
     \/ \E c \in SystemConns : ToNotifier(c)
     \/ \E c \in SystemConns : PeerCloses(c)
     \/ \E c \in SystemConns : GatewayCloses(c)
     \/ \E c \in SystemConns : Closed(c)
     \/ \E c \in SystemConns : SubscriptionTimeout(c) /\ UNCHANGED <<detVars, ntfVars>>
     \/ \E c \in SystemConns : OnUpstreamOpen(c) /\ UNCHANGED <<detVars, ntfVars>>
  /\ UNCHANGED ui

SpecSystem == InitSystem /\ [][NextSystem]_vars

(* the connection is open at both ends and nothing is on its way *)
Settled(c) ==
  /\ session[c].client = "OPEN"
  /\ sockets[c].readyState = "OPEN"
  /\ obs[c].received = Len(sockets[c].sent)
  /\ sockets[c].acks = Len(clientOut[c])

(* C38: with the same secret on both sides, or none on either, no
   connection ever sees more than one acknowledgement, one Subscription or
   one upstream connection, the first message to the upstream is the
   augmented form of the notifier's Subscription, and every connection
   that is open at both ends with nothing on its way is relaying: its
   timeout is cleared and it has seen exactly one Subscription, one
   upstream connection and, with a secret, one acknowledgement. *)
C38_HandshakeReachesRelaying ==
  \A c \in SystemConns :
    /\ obs[c].acks <= 1
    /\ Subscriptions(sockets[c].sent) <= 1
    /\ obs[c].upstreams <= 1
    /\ Len(upstreamOut[c]) >= 1 =>
         upstreamOut[c][1] =
           JSONstringify(injectApiKey(
             validateSubscription(JSONparse(subscriptionFrame)).subscription))
    /\ Settled(c) =>
         /\ session[c].upstream # "null"
         /\ session[c].subscriptionTimeout = "cleared"
         /\ Subscriptions(sockets[c].sent) = 1
         /\ Len(sockets[c].sent) = (IF AUTH_TOKEN = Absent THEN 1 ELSE 2)
         /\ obs[c].upstreams = 1
         /\ obs[c].acks = (IF AUTH_TOKEN = Absent THEN 0 ELSE 1)

(* the second connection of a notifier with a secret is relaying: the
   upstream is open and has been sent the augmented Subscription *)
C38_Witness ==
  /\ AUTH_TOKEN = SECRET
  /\ Settled(2)
  /\ session[2].upstream = "OPEN"
  /\ Len(upstreamOut[2]) = 1
  /\ obs[2].acks = 1


(* ------------------------------------------------------------------ *)
(* The notifier and the gateway configured differently                  *)
(* ------------------------------------------------------------------ *)
(* one side has a secret and the other has none: the gateway closes
   every connection on its first message, or on its timeout *)
InitMismatch == InitPairing /\ config.wsAuthToken # AUTH_TOKEN

NextMismatch ==
  /\ \/ Start /\ UNCHANGED gwVars
     \/ Stop /\ UNCHANGED gwVars
     \/ ntfObs.connects < MaxSystemConnects /\ ReconnectTimer /\ UNCHANGED gwVars
     \/ \E c \in SystemConns : Accept(c)
     \/ \E c \in SystemConns : Opened(c)
     \/ \E c \in SystemConns : ToGateway(c)
     \/ \E c \in SystemConns : PeerCloses(c)
     \/ \E c \in SystemConns : GatewayCloses(c)
     \/ \E c \in SystemConns : Closed(c)
     \/ \E c \in SystemConns : SubscriptionTimeout(c) /\ UNCHANGED <<detVars, ntfVars>>
  /\ UNCHANGED ui

SpecMismatch == InitMismatch /\ [][NextMismatch]_vars

(* C39: when every connection opens and is closed by the gateway, every
   reconnect timer is armed with the initial delay of 2000 ms: no second
   schedule follows a first without an open in between, the delay in force
   is 2000 ms or, while a timer is pending or has just fired, 4000 ms, and
   every close event that reaches the running notifier arms one timer, so
   the notifier goes on retrying. *)
C39_RetryAtInitialDelay ==
  /\ [](/\ ntfObs.schedules <= 1
        /\ ntfObs.armed \in {0, INITIAL_RECONNECT_DELAY}
        /\ notifier.reconnectTimer \in {0, INITIAL_RECONNECT_DELAY}
        /\ notifier.reconnectDelay \in
             {INITIAL_RECONNECT_DELAY, 2 * INITIAL_RECONNECT_DELAY}
        /\ \A s \in SystemConns :
             sockets[s].readyState = "OPEN" =>
               notifier.reconnectDelay = INITIAL_RECONNECT_DELAY)
  /\ [][\A s \in SystemConns :
          notifier.running /\ GatewayCloses(s) =>
            /\ notifier'.reconnectTimer = INITIAL_RECONNECT_DELAY
            /\ timers'.reconnect = 1
            /\ notifier'.running]_vars

(* the second connection, like the first, opened and was closed by the
   gateway, and the timer for the third attempt is pending at 2000 ms *)
C39_Witness ==
  /\ notifier.running
  /\ ntfObs.connects = 2
  /\ sockets[1].opened /\ sockets[1].readyState = "CLOSED"
  /\ sockets[2].opened /\ sockets[2].readyState = "CLOSED"
  /\ session[2].closeBy = "gateway"
  /\ notifier.reconnectTimer = INITIAL_RECONNECT_DELAY
  /\ timers.reconnect = 1


(* ------------------------------------------------------------------ *)
(* The UI hook connected to a gateway configured differently            *)
(* ------------------------------------------------------------------ *)
(* Socket s of the hook is session s of the gateway; what the hook sent
   on the socket reaches the session in order. *)
InitHook ==
  /\ GatewayInit(SystemConns, IPs)
  /\ DetectorInit({}) /\ NotifierIdle
  /\ ui \in {NoUi(token, SystemConns, {}, 0) : token \in Tokens}
  /\ ui.WS_AUTH_TOKEN # AUTH_TOKEN

(* the gateway accepts the connection the hook is making *)
HookAccept(c) ==
  /\ ui.sockets[c].readyState = "CONNECTING"
  /\ \E ip \in IPs : OnConnection(c, ip)
  /\ UNCHANGED <<detVars, ntfVars, ui>>

(* the hook learns that the gateway has accepted *)
HookOpened(s) ==
  /\ session[s].admitted
  /\ UiOnOpen(s, "OPEN")

(* the next frame the hook sent reaches the gateway *)
HookToGateway(c) ==
  /\ obs[c].received < Len(ui.sockets[c].sent)
  /\ OnClientMessage(c, ui.sockets[c].sent[obs[c].received + 1])
  /\ UNCHANGED <<detVars, ntfVars, ui>>

(* the close of the gateway reaches the hook *)
HookGatewayCloses(s) ==
  /\ session[s].client \in {"CLOSING", "CLOSED"}
  /\ UiOnClose(s)

(* the close handshake completes at the gateway *)
HookClosed(c) ==
  /\ session[c].client = "CLOSING"
  /\ OnClientClose(c)
  /\ UNCHANGED <<detVars, ntfVars, ui>>

NextHook ==
  \/ UiMount
  \/ ui.connects < MaxSystemConnects /\ UiReconnectTimer
  \/ \E c \in SystemConns : HookAccept(c)
  \/ \E c \in SystemConns : HookOpened(c)
  \/ \E c \in SystemConns : HookToGateway(c)
  \/ \E c \in SystemConns : HookGatewayCloses(c)
  \/ \E c \in SystemConns : HookClosed(c)
  \/ \E c \in SystemConns : SubscriptionTimeout(c) /\ UNCHANGED <<detVars, ntfVars, ui>>
  \/ \E c \in SystemConns : OnUpstreamOpen(c) /\ UNCHANGED <<detVars, ntfVars, ui>>

SpecHook == InitHook /\ [][NextHook]_vars

(* C40: with a secret on one side only, the session's first message gets
   it closed, with 1007 after validation when the gateway has no secret
   and with 1008 'Authentication failed' when it has one, and no upstream
   connection is ever opened for it. *)
C40_MismatchNeverRelays ==
  /\ [](\A c \in SystemConns :
          /\ session[c].upstream = "null"
          /\ obs[c].upstreams = 0
          /\ upstreamOut[c] = <<>>)
  /\ [][\A c \in SystemConns :
          (session[c].client = "OPEN" /\ obs[c].received = 0
             /\ obs'[c].received = 1)
          => /\ session'[c].client = "CLOSING"
             /\ session'[c].closeBy = "gateway"
             /\ IF AUTH_TOKEN = Absent
                  THEN /\ session'[c].close[1] = 1007
                       /\ obs'[c].validated = obs[c].validated + 1
                  ELSE session'[c].close = <<1008, "Authentication failed">>]_vars

============================================================================
